---- MODULE Spec2Model ----
(***************************************************************************)
(* Model of the SignalFlow agent orchestration core:                       *)
(*   - BaseAgent.run / ReActAgent.execute / invoke_llm / execute_tool      *)
(*     (backend/src/agents/core/base.py)                                    *)
(*   - StrategyAnalyzerAgent.extract_result                                 *)
(*     (backend/src/agents/implementations/strategy_analyzer.py)            *)
(*   - MultiAgentWorkflow templates (backend/src/agents/workflows/engine.py)*)
(***************************************************************************)
EXTENDS Integers, Sequences, FiniteSets, TLC

VARIABLES
    \* ---- one BaseAgent.run call ----
    agent_class,    \* which subclass of BaseAgent is running
    tools,          \* self.tools: the tools the agent was constructed with
    config,         \* AgentConfig (max_retries, max_iterations)
    agent_input,    \* AgentInput (task_id)
    pc,             \* position of the run coroutine
    current_state,  \* AgentState threaded through ReActAgent.execute
    attempt,        \* invoke_llm: loop variable of `for attempt in range(max_retries)`
    last_error,     \* invoke_llm: last_error
    response,       \* the AIMessage returned by the last invoke_llm
    tool_idx,       \* _execute_tool_calls: position in tool_calls
    results,        \* _execute_tool_calls: results list
    decisions,      \* ReActAgent.execute: decisions list
    output,         \* the AgentOutput returned by run (or NoOutput)
    raised,         \* the exception that left run (or NoExc)
    llm_log,        \* history: outcomes of the attempts of the current invoke_llm
    llm_calls,      \* history: number of llm.ainvoke calls made in the run
    executed,       \* history: tool names passed to execute_tool in the current round
    extracted,      \* history: what extract_result returned last
    extract_calls,  \* history: number of extract_result calls made in the run
    \* ---- one MultiAgentWorkflow and one run of it ----
    wf_template,    \* which setup_* built the graph
    agent_handlers, \* self._agent_handlers: ids registered with add_agent
    wf_list,        \* agent_order / parallel_agents / workers
    route_script,   \* supervisor: the labels route_condition gives, by visit
    wf_graph,       \* entry point, edges and conditional edge of the graph
    wf_pc,          \* position of the run
    wf_node,        \* the node about to run
    wf_state,       \* the AgentState of the run
    wf_in,          \* fan-out: the state parallel_executor was called with
    tasks,          \* fan-out: agent ids of the tasks handed to asyncio.gather
    task_results,   \* fan-out: gather's results, by task position
    wf_exc,         \* the exception that aborted the run (or NoExc)
    wf_trace,       \* history: the node executions of the run, in order
    \* ---- one extract_result call on a parsed payload, one Decision ----
    dec_pc,         \* what has been applied so far
    dec_value,      \* the value json.loads returned
    dec_state,      \* the AgentState handed to extract_result
    dec_out,        \* what extract_result returned or raised
    dec_decision,   \* the Decision whose confidence_level is read
    dec_level,      \* Decision.confidence_level
    \* ---- one PlanAndExecuteAgent run ----
    plan_pc,        \* position of PlanAndExecuteAgent.execute
    plan_response,  \* content of the model's plan response
    plan,           \* the plan create_plan returned
    plan_idx,       \* position of `for step in plan`
    plan_results,   \* execute: results
    plan_output,    \* the AgentOutput returned by run (or NoOutput)
    plan_raised,    \* the exception that left run (or NoExc)
    plan_phases,    \* history: the phases entered, in order
    plan_invocations, \* history: what each invoke_llm call of the run was made for
    \* ---- one AgentFactory.create call ----
    fac_pc,         \* before or after the create call
    fac_registry,   \* agent_registry._agents
    fac_factory,    \* the factory's _llm_factory and _tool_factory
    fac_call,       \* the arguments of create
    fac_agent,      \* the agent create returned (or NoAgent)
    fac_raised,     \* the exception that left create (or NoExc)
    \* ---- two runs of one compiled workflow ----
    run_template,   \* which setup_* built the shared graph
    run_list,       \* agent_order / parallel_agents / workers
    run_script,     \* supervisor: the labels route_condition gives, by visit
    run_graph,      \* the graph both runs execute
    run_handlers,   \* what each registered handler does with its input
    run_compiled,   \* self._compiled is set
    runs,           \* per run: position, node, state and fan-out locals
    \* ---- state objects by identity ----
    obj_heap,       \* the dict and list objects that exist
    obj_cur,        \* id of the current state object
    obj_given,      \* id of the state object the last step was given
    obj_before,     \* history: what obj_given held before the last step
    obj_step,       \* history: which step ran last
    obj_exc,        \* the exception the last step raised (or NoExc)
    \* ---- the ToolRegistry singleton ----
    tool_registry,  \* ToolRegistry: _tools and _metadata
    reg_ops,        \* number of register / unregister / clear calls made
    reg_latest,     \* history: per name, the tool and category of the latest registration
    \* ---- strategy workflows ----
    sw_workflow,    \* which workflow was set up
    sw_symbol,      \* setup's symbol
    sw_agents,      \* what each agent of the standard flow does when run
    sw_initial,     \* the initial state given to run
    sw_state,       \* the state the current node receives
    sw_pc,          \* ready / running / done / aborted
    sw_node,        \* the node to run
    sw_trace,       \* the nodes whose handler was called, in order
    sw_exc,         \* the exception run raised
    \* ---- one ResearchWorkflow run ----
    rw_max_iterations,\* ResearchWorkflow.max_iterations
    rw_researcher,  \* what the researcher's run does
    rw_initial,     \* the initial state given to run
    rw_state,       \* the state the current node receives
    rw_pc,          \* ready / running / done / aborted
    rw_node,        \* the node to run
    rw_trace,       \* the nodes whose handler was called, in order
    rw_exc,         \* the exception run raised
    \* ---- one AgentFactory and its instance cache ----
    cache_registry, \* agent_registry._agents
    cache_factory,  \* the factory's llm_factory and tool_factory
    cache_instances,\* self._instances: agent_id -> agent
    cache_built,    \* history: agents constructed per agent_id since the last clear
    cache_ops,      \* number of calls made
    cache_last      \* history: the last call, what it gave, the cache before it

avars == <<agent_class, tools, config, agent_input, pc, current_state, attempt, last_error,
           response, tool_idx, results, decisions, output, raised, llm_log,
           llm_calls, executed, extracted, extract_calls>>

wvars == <<wf_template, agent_handlers, wf_list, route_script, wf_graph, wf_pc,
           wf_node, wf_state, wf_in, tasks, task_results, wf_exc, wf_trace>>

dvars == <<dec_pc, dec_value, dec_state, dec_out, dec_decision, dec_level>>

pvars == <<plan_pc, plan_response, plan, plan_idx, plan_results, plan_output, plan_raised,
           plan_phases, plan_invocations>>

fvars == <<fac_pc, fac_registry, fac_factory, fac_call, fac_agent, fac_raised>>

rvars == <<run_template, run_list, run_script, run_graph, run_handlers, run_compiled, runs>>

ovars == <<obj_heap, obj_cur, obj_given, obj_before, obj_step, obj_exc>>

gvars == <<tool_registry, reg_ops, reg_latest>>

svars == <<sw_workflow, sw_symbol, sw_agents, sw_initial, sw_state, sw_pc, sw_node, sw_trace, sw_exc>>

hvars == <<rw_max_iterations, rw_researcher, rw_initial, rw_state, rw_pc, rw_node, rw_trace, rw_exc>>

cvars == <<cache_registry, cache_factory, cache_instances, cache_built, cache_ops, cache_last>>

vars == <<avars, wvars, dvars, pvars, fvars, rvars, ovars, gvars, svars, hvars, cvars>>

\* everything but avars
not_avars == <<wvars, dvars, pvars, fvars, rvars, ovars, gvars, svars, hvars, cvars>>

\* everything but wvars
not_wvars == <<avars, dvars, pvars, fvars, rvars, ovars, gvars, svars, hvars, cvars>>

\* everything but dvars
not_dvars == <<avars, wvars, pvars, fvars, rvars, ovars, gvars, svars, hvars, cvars>>

\* everything but pvars
not_pvars == <<avars, wvars, dvars, fvars, rvars, ovars, gvars, svars, hvars, cvars>>

\* everything but fvars
not_fvars == <<avars, wvars, dvars, pvars, rvars, ovars, gvars, svars, hvars, cvars>>

\* everything but rvars
not_rvars == <<avars, wvars, dvars, pvars, fvars, ovars, gvars, svars, hvars, cvars>>

\* everything but ovars
not_ovars == <<avars, wvars, dvars, pvars, fvars, rvars, gvars, svars, hvars, cvars>>

\* everything but gvars
not_gvars == <<avars, wvars, dvars, pvars, fvars, rvars, ovars, svars, hvars, cvars>>

\* everything but svars
not_svars == <<avars, wvars, dvars, pvars, fvars, rvars, ovars, gvars, hvars, cvars>>

\* everything but hvars
not_hvars == <<avars, wvars, dvars, pvars, fvars, rvars, ovars, gvars, svars, cvars>>

\* everything but cvars
not_cvars == <<avars, wvars, dvars, pvars, fvars, rvars, ovars, gvars, svars, hvars>>

----------------------------------------------------------------------------
\* Bounds of the model
MaxRetries == 2
MaxIterations == 2
MaxCalls == 2
MaxContentLen == 3
MaxToolTextLen == 1
MaxAgents == 3
MaxVisits == 2
MaxSteps == 2
MaxPlanLen == 3
MaxRunAgents == 2
MaxRunVisits == 1
MaxHeap == 3
MaxOps == 4
MaxAnalyzers == 2
MaxDecisions == 2
MaxResearch == 2
MaxCacheOps == 3

SeqsUpTo(S, n) == UNION {[1..k -> S] : k \in 0..n}

----------------------------------------------------------------------------
\* Exceptions

NoExc == [type |-> "none", code |-> "none", msg |-> "", cause |-> "none"]

\* types.py AgentError(code, message, ...): an Exception subclass, str(e) = message
AgentError(code, message, cause) ==
    [type |-> "AgentError", code |-> code, msg |-> message, cause |-> cause]

\* any other Exception; str(e) is its message, which may be empty
PyException(type, message) ==
    [type |-> type, code |-> "none", msg |-> message, cause |-> "none"]

----------------------------------------------------------------------------
\* AgentOutput (types.py)

EmptyResult == [kind |-> "empty", response |-> <<>>, tool_results |-> <<>>,
                iteration_count |-> 0]

NoOutput == [status |-> "none", result |-> EmptyResult, decisions |-> <<>>,
             error |-> "None"]

\* run's success return
CompletedOutput(result, ds) ==
    [status |-> "completed", result |-> result, decisions |-> ds, error |-> "None"]

\* run's failure return: result and decisions take their dataclass defaults
FailedOutput(e) ==
    [status |-> "failed", result |-> EmptyResult, decisions |-> <<>>, error |-> e.msg]

\* the except clauses of BaseAgent.run
RunOnException(e) ==
    IF e.type = "AgentError"
    THEN [output |-> NoOutput, raised |-> e]
    ELSE [output |-> FailedOutput(e), raised |-> NoExc]

----------------------------------------------------------------------------
\* Model responses and tools

\* Text of a model response, as a sequence of lexical pieces:
\*   "FJ"  the marker ```json        "F"   the marker ```
\*   "ws"  whitespace                "txt" prose that is not JSON
\*   "obj" the JSON object {"decision":"buy","confidence":0.82,"reasoning":[..]}
\*   "arr" a JSON array (valid JSON, not an object)
JsonTokens == {"obj", "arr"}
Tokens == {"FJ", "F", "ws", "txt"} \cup JsonTokens

\* the tool lists an agent may be constructed with: no tool, a tool whose
\* ainvoke returns, a tool whose ainvoke raises
ToolLists == {{}, {[name |-> "get_quote", behaviour |-> "return"]},
              {[name |-> "get_quote", behaviour |-> "raise"]}}
\* names a model may put in a tool call
ToolNames == {"get_quote", "unknown_tool"}

\* the errors llm.ainvoke may raise
LLMErrors == {"timeout", "rate_limit"}

MkCalls(names) == [i \in 1..Len(names) |-> [name |-> names[i], id |-> i]]

ToolCallResponses ==
    {[kind |-> "ai", content |-> <<>>, tool_calls |-> MkCalls(names)] :
        names \in SeqsUpTo(ToolNames, MaxCalls) \ {<<>>}}

FinalResponses(n) ==
    {[kind |-> "ai", content |-> c, tool_calls |-> <<>>] : c \in SeqsUpTo(Tokens, n)}

\* What llm.ainvoke may return. invoke_llm calls self.llm_with_tools only when
\* the agent has tools; a model without bound tools answers with text alone.
Responses(ts) ==
    IF ts = {} THEN FinalResponses(MaxContentLen)
    ELSE ToolCallResponses \cup FinalResponses(MaxToolTextLen)

NoResponse == [kind |-> "none", content |-> <<>>, tool_calls |-> <<>>]

NoToolResult == [err |-> FALSE, tool |-> "none", why |-> "none", n |-> 0]

Message(role, content, id, result) ==
    [role |-> role, content |-> content, tool_call_id |-> id, result |-> result]

\* dict(d, **{k: v})
Put(d, k, v) == [x \in (DOMAIN d) \cup {k} |-> IF x = k THEN v ELSE d[x]]

----------------------------------------------------------------------------
\* Result extraction (strategy_analyzer.py)

IndexOf(s, t) ==
    IF \E i \in 1..Len(s) : s[i] = t
    THEN CHOOSE i \in 1..Len(s) : s[i] = t /\ \A j \in 1..(i-1) : s[j] # t
    ELSE 0

\* s.split(t)[0]
SplitFirst(s, t) == IF IndexOf(s, t) = 0 THEN s ELSE SubSeq(s, 1, IndexOf(s, t) - 1)

\* s.split(t)[1], for t in s
SplitSecond(s, t) == SplitFirst(SubSeq(s, IndexOf(s, t) + 1, Len(s)), t)

Contains(s, t) == IndexOf(s, t) # 0

RECURSIVE LStrip(_)
LStrip(s) == IF s # <<>> /\ Head(s) = "ws" THEN LStrip(Tail(s)) ELSE s

RECURSIVE RStrip(_)
RStrip(s) ==
    IF s # <<>> /\ s[Len(s)] = "ws" THEN RStrip(SubSeq(s, 1, Len(s) - 1)) ELSE s

\* str.strip()
Strip(s) == RStrip(LStrip(s))

\* the text extract_result hands to json.loads (before .strip())
SelectJson(content) ==
    IF Contains(content, "FJ") THEN SplitFirst(SplitSecond(content, "FJ"), "F")
    ELSE IF Contains(content, "F") THEN SplitFirst(SplitSecond(content, "F"), "F")
    ELSE content

\* json.loads: a value, or JSONDecodeError
JsonLoads(s) ==
    IF Len(s) = 1 /\ s[1] \in JsonTokens
    THEN [ok |-> TRUE, value |-> s[1]]
    ELSE [ok |-> FALSE, value |-> "none"]

\* A parsed JSON value. An object carries the analysis fields it has
\* (`present`); the fields it lacks, and the other kinds of value, hold fillers.
JsonValue(kind, present, decision, confidence, reasoning, risk_factors, recommended_action) ==
    [json |-> kind, present |-> present, decision |-> decision, confidence |-> confidence,
     reasoning |-> reasoning, risk_factors |-> risk_factors,
     recommended_action |-> recommended_action]

NoJson == JsonValue("none", {}, "", 0, <<>>, <<>>, "")

JsonArray == JsonValue("array", {}, "", 0, <<>>, <<>>, "")

\* {"decision": "buy", "confidence": 0.82, "reasoning": ["strong momentum"]};
\* confidences are in hundredths
ExampleObject ==
    JsonValue("object", {"decision", "confidence", "reasoning"}, "buy", 82,
              <<"strong momentum">>, <<>>, "")

\* the value each JSON token of a response stands for
JsonValueOf(token) == IF token = "obj" THEN ExampleObject ELSE JsonArray

\* the content of AgentInput: {"symbol": "600519"}, or a dict without a symbol
TaskInput(has_symbol) ==
    [has_symbol |-> has_symbol, symbol |-> IF has_symbol THEN "600519" ELSE ""]

NoExtract == [kind |-> "none", raw_response |-> <<>>, value |-> NoJson]

\* an except clause that does not name json.JSONDecodeError
ExtractCatches_NoJson == {"IndexError", "KeyError"}

\* the exception types the except clause of extract_result catches
ExtractCatches == {"JSONDecodeError", "IndexError", "KeyError"}

\* the DecisionType members
DecisionTypes == {"buy", "sell", "hold", "observe", "alert"}

\* decision_type_map of extract_result
DecisionTypeMap == [k \in {"buy", "sell", "hold", "observe"} |-> k]

\* d.get(key, default) on the parsed object, per field
GetDecision(value) == IF "decision" \in value.present THEN value.decision ELSE "hold"
GetConfidence(value) == IF "confidence" \in value.present THEN value.confidence ELSE 50
GetReasoning(value) == IF "reasoning" \in value.present THEN value.reasoning ELSE <<>>
GetRiskFactors(value) == IF "risk_factors" \in value.present THEN value.risk_factors ELSE <<>>
GetAction(value) ==
    IF "recommended_action" \in value.present THEN value.recommended_action ELSE ""

\* Decision(...) built from the parsed payload
MakeDecision(value, state) ==
    [decision_type |-> IF GetDecision(value) \in DOMAIN DecisionTypeMap
                       THEN DecisionTypeMap[GetDecision(value)] ELSE "hold",
     symbol |-> IF state.task_input.has_symbol THEN state.task_input.symbol ELSE "UNKNOWN",
     confidence |-> GetConfidence(value),
     reasoning |-> GetReasoning(value),
     risk_factors |-> GetRiskFactors(value),
     recommended_action |-> GetAction(value),
     supporting_data |-> state.tool_results]

\* extract_result after json.loads returned `value`
AnalyzerParsed(value, state) ==
    IF value.json # "object"
    THEN [exc |-> PyException("AttributeError", "object has no attribute 'get'"),
          result |-> NoExtract, decisions |-> <<>>]
    ELSE [exc |-> NoExc,
          result |-> [kind |-> "json", raw_response |-> <<>>, value |-> value],
          decisions |-> <<MakeDecision(value, state)>>]

\* the try body of StrategyAnalyzerAgent.extract_result
AnalyzerTry(content, state) ==
    LET parsed == JsonLoads(Strip(SelectJson(content))) IN
    IF ~parsed.ok
    THEN [exc |-> PyException("JSONDecodeError", "Expecting value"),
          result |-> NoExtract, decisions |-> <<>>]
    ELSE AnalyzerParsed(JsonValueOf(parsed.value), state)

\* the except clause of extract_result, given what the try body did
AnalyzerExcept(t, content) ==
    IF t.exc.type \in ExtractCatches
    THEN [exc |-> NoExc,
          result |-> [kind |-> "raw", raw_response |-> content, value |-> NoJson],
          decisions |-> <<>>]
    ELSE t

\* StrategyAnalyzerAgent.extract_result
AnalyzerExtract(content, state) == AnalyzerExcept(AnalyzerTry(content, state), content)

\* ReActAgent.extract_result (the default)
DefaultExtract(content, state) ==
    [exc |-> NoExc,
     result |-> [kind |-> "content", raw_response |-> content, value |-> NoJson],
     decisions |-> <<>>]

ExtractResult(cls, content, state) ==
    IF cls = "StrategyAnalyzerAgent" THEN AnalyzerExtract(content, state)
    ELSE DefaultExtract(content, state)

----------------------------------------------------------------------------
\* BaseAgent.run and ReActAgent.execute

AgentClasses == {"ReActAgent", "StrategyAnalyzerAgent", "CustomAgent"}

NoState == [messages |-> <<>>, task_input |-> TaskInput(FALSE), iteration_count |-> 0,
            max_iterations |-> 0, should_end |-> FALSE, tool_results |-> <<>>]

\* BaseAgent._prepare_initial_state: the system message only when a prompt is set
PrepareInitialState(cls, cfg) ==
    [messages |->
        (IF cls = "StrategyAnalyzerAgent"
         THEN <<Message("system", <<"txt">>, 0, NoToolResult)>> ELSE <<>>)
        \o <<Message("human", <<"txt">>, 0, NoToolResult)>>,
     task_input |-> TaskInput(TRUE),
     iteration_count |-> 0,
     max_iterations |-> cfg.max_iterations,
     should_end |-> FALSE,
     tool_results |-> <<>>]

\* the loop guard with > for >=
LoopGuard_OffByOne(state) == state.iteration_count > state.max_iterations

\* the loop guard of ReActAgent.execute
LoopGuard(state) == state.iteration_count >= state.max_iterations

\* range(max_retries + 1)
AttemptRange_OneMore(max_retries) == 0..max_retries

\* range(max_retries) of invoke_llm
AttemptRange(max_retries) == 0..(max_retries - 1)

\* BaseAgent.execute_tool: a result, or AgentError TOOL_EXECUTION_FAILED
ExecuteTool(tool_map, name, n) ==
    IF \A t \in tool_map : t.name # name
    THEN [exc |-> AgentError("TOOL_EXECUTION_FAILED", "Tool not found", "none"),
          value |-> NoToolResult]
    ELSE IF (CHOOSE t \in tool_map : t.name = name).behaviour = "raise"
    THEN [exc |-> AgentError("TOOL_EXECUTION_FAILED", "Tool execution failed", "tool_error"),
          value |-> NoToolResult]
    ELSE [exc |-> NoExc, value |-> [err |-> FALSE, tool |-> name, why |-> "ok", n |-> n]]

\* f"Error: {e}"
ErrorString(name, e, n) ==
    [err |-> TRUE, tool |-> name, why |-> e.msg, n |-> n]

\* _execute_tool_calls without its try/except: the AgentError escapes
ToolRoundStep_NoCatch(calls, idx, res, r, n) ==
    IF r.exc.type = "none"
    THEN [results |-> Append(res, r.value), idx |-> idx + 1, exc |-> NoExc]
    ELSE [results |-> res, idx |-> idx, exc |-> r.exc]

\* one pass of the for loop of _execute_tool_calls: the try/except around
\* execute_tool. Gives the new results list, the next position and what escapes.
ToolRoundStep(calls, idx, res, r, n) ==
    IF r.exc.type = "none"
    THEN [results |-> Append(res, r.value), idx |-> idx + 1, exc |-> NoExc]
    ELSE IF r.exc.type = "AgentError"
    THEN [results |-> Append(res, ErrorString(calls[idx].name, r.exc, n)),
          idx |-> idx + 1, exc |-> NoExc]
    ELSE [results |-> res, idx |-> idx, exc |-> r.exc]

RECURSIVE ToolMessages(_, _, _)
\* the ToolMessage appended for each (tool_call, result) of the zip
ToolMessages(calls, res, i) ==
    IF i > Len(calls) \/ i > Len(res) THEN <<>>
    ELSE <<Message("tool", <<>>, calls[i].id, res[i])>> \o ToolMessages(calls, res, i + 1)

\* variant: a name keeps the first result recorded for it
MergeToolResults_KeepFirst(d, calls, res, i) ==
    LET names == {calls[j].name : j \in i..Len(calls)}
        first(x) == CHOOSE j \in i..Len(calls) :
                       calls[j].name = x /\ \A k \in i..(j - 1) : calls[k].name # x
    IN [x \in (DOMAIN d) \cup names |-> IF x \in DOMAIN d THEN d[x] ELSE res[first(x)]]

RECURSIVE MergeToolResults(_, _, _, _)
\* dict(tool_results, **{tc["name"]: r for tc, r in zip(tool_calls, results)})
MergeToolResults(d, calls, res, i) ==
    IF i > Len(calls) \/ i > Len(res) THEN d
    ELSE MergeToolResults(Put(d, calls[i].name, res[i]), calls, res, i + 1)

\* variant: the new history starts over from the response
NewMessages_Replace(state, resp) == <<Message("ai", resp.content, 0, NoToolResult)>>

\* new_messages = list(messages) + [response]
NewMessages(state, resp) ==
    state.messages \o <<Message("ai", resp.content, 0, NoToolResult)>>

\* the update_state call that ends a tool round
ToolRoundState(state, resp, res) ==
    [state EXCEPT
       !.messages = NewMessages(state, resp) \o ToolMessages(resp.tool_calls, res, 1),
       !.iteration_count = state.iteration_count + 1,
       !.tool_results = MergeToolResults(state.tool_results, resp.tool_calls, res, 1)]

\* variant: the update after extract_result leaves should_end alone
ExtractState_NoFlag(state, resp) ==
    [state EXCEPT
       !.messages = NewMessages(state, resp),
       !.iteration_count = state.iteration_count + 1]

\* the update_state call after extract_result
ExtractState(state, resp) ==
    [state EXCEPT
       !.messages = NewMessages(state, resp),
       !.should_end = TRUE,
       !.iteration_count = state.iteration_count + 1]

\* final_result of ReActAgent.execute
FinalResult(state) ==
    [kind |-> "react",
     response |-> IF state.messages # <<>>
                  THEN state.messages[Len(state.messages)].content ELSE <<>>,
     tool_results |-> state.tool_results,
     iteration_count |-> state.iteration_count]

\* an exception reaches the except clauses of run
RunFails(e) ==
    /\ output' = RunOnException(e).output
    /\ raised' = RunOnException(e).raised
    /\ pc' = "done"

\* run: _validate_input and _prepare_initial_state
Run_Start ==
    /\ UNCHANGED not_avars
    /\ pc = "run"
    /\ IF agent_input.task_id = ""
       THEN /\ RunFails(AgentError("INVALID_INPUT", "Task ID is required", "none"))
            /\ UNCHANGED current_state
       ELSE /\ current_state' = PrepareInitialState(agent_class, config)
            /\ pc' = IF agent_class = "CustomAgent" THEN "execute" ELSE "loop"
            /\ UNCHANGED <<output, raised>>
    /\ UNCHANGED <<agent_class, tools, config, agent_input, attempt, last_error, response,
                   tool_idx, results, decisions, llm_log, llm_calls, executed, extracted,
                   extract_calls>>

\* the abstract BaseAgent.execute of some other subclass: it returns or raises
Custom_Execute ==
    /\ UNCHANGED not_avars
    /\ pc = "execute"
    /\ \/ /\ output' = CompletedOutput([EmptyResult EXCEPT !.kind = "custom"], <<>>)
          /\ raised' = NoExc
          /\ pc' = "done"
       \/ \E m \in {"", "boom"} : RunFails(PyException("Exception", m))
       \/ RunFails(AgentError("EXECUTION_FAILED", "failed", "none"))
    /\ UNCHANGED <<agent_class, tools, config, agent_input, current_state, attempt, last_error,
                   response, tool_idx, results, decisions, llm_log, llm_calls, executed,
                   extracted, extract_calls>>

\* ReActAgent.execute: the while test, the iteration check, and the final return
ReAct_Loop ==
    /\ UNCHANGED not_avars
    /\ pc = "loop"
    /\ IF current_state.should_end
       THEN /\ output' = CompletedOutput(FinalResult(current_state), decisions)
            /\ pc' = "done"
            /\ UNCHANGED <<raised, attempt, last_error, llm_log>>
       ELSE IF LoopGuard(current_state)
       THEN /\ RunFails(AgentError("MAX_ITERATIONS_EXCEEDED", "Max iterations exceeded", "none"))
            /\ UNCHANGED <<attempt, last_error, llm_log>>
       ELSE /\ pc' = "llm"
            /\ attempt' = 0
            /\ last_error' = "none"
            /\ llm_log' = <<>>
            /\ UNCHANGED <<output, raised>>
    /\ UNCHANGED <<agent_class, tools, config, agent_input, current_state, response, tool_idx,
                   results, decisions, llm_calls, executed, extracted,
                   extract_calls>>

\* invoke_llm: an attempt that returns a response
LLM_AttemptOk ==
    /\ UNCHANGED not_avars
    /\ pc = "llm"
    /\ attempt \in AttemptRange(config.max_retries)
    /\ \E r \in Responses(tools) :
          /\ response' = r
          /\ llm_log' = Append(llm_log, [ok |-> TRUE, err |-> "none", resp |-> r])
    /\ llm_calls' = llm_calls + 1
    /\ pc' = "dispatch"
    /\ UNCHANGED <<agent_class, tools, config, agent_input, current_state, attempt, last_error,
                   tool_idx, results, decisions, output, raised, executed, extracted,
                   extract_calls>>

\* invoke_llm: an attempt that raises
LLM_AttemptFail ==
    /\ UNCHANGED not_avars
    /\ pc = "llm"
    /\ attempt \in AttemptRange(config.max_retries)
    /\ \E e \in LLMErrors :
          /\ last_error' = e
          /\ llm_log' = Append(llm_log, [ok |-> FALSE, err |-> e, resp |-> NoResponse])
    /\ llm_calls' = llm_calls + 1
    /\ attempt' = attempt + 1
    /\ UNCHANGED <<agent_class, tools, config, agent_input, pc, current_state, response,
                   tool_idx, results, decisions, output, raised, executed, extracted,
                   extract_calls>>

\* invoke_llm: the loop is over, raise LLM_ERROR from last_error
LLM_Exhausted ==
    /\ UNCHANGED not_avars
    /\ pc = "llm"
    /\ attempt \notin AttemptRange(config.max_retries)
    /\ RunFails(AgentError("LLM_ERROR", "LLM invocation failed", last_error))
    /\ UNCHANGED <<agent_class, tools, config, agent_input, current_state, attempt, last_error,
                   response, tool_idx, results, decisions, llm_log, llm_calls, executed,
                   extracted, extract_calls>>

\* ReActAgent.execute: invoke_llm has returned (its locals are gone); tool calls or not
ReAct_Dispatch ==
    /\ UNCHANGED not_avars
    /\ pc = "dispatch"
    /\ IF response.tool_calls # <<>>
       THEN /\ pc' = "tools"
            /\ tool_idx' = 1
            /\ results' = <<>>
            /\ executed' = <<>>
       ELSE /\ pc' = "extract"
            /\ UNCHANGED <<tool_idx, results, executed>>
    /\ attempt' = 0
    /\ last_error' = "none"
    /\ llm_log' = <<>>
    /\ UNCHANGED <<agent_class, tools, config, agent_input, current_state, response,
                   decisions, output, raised, llm_calls, extracted,
                   extract_calls>>

\* _execute_tool_calls: one tool call
ReAct_ToolCall ==
    /\ UNCHANGED not_avars
    /\ pc = "tools"
    /\ tool_idx <= Len(response.tool_calls)
    /\ LET name == response.tool_calls[tool_idx].name
           n == current_state.iteration_count * MaxCalls + tool_idx
           step == ToolRoundStep(response.tool_calls, tool_idx, results,
                                 ExecuteTool(tools, name, n), n)
       IN /\ executed' = Append(executed, name)
          /\ IF step.exc.type = "none"
             THEN /\ results' = step.results
                  /\ tool_idx' = step.idx
                  /\ UNCHANGED <<pc, output, raised>>
             ELSE /\ RunFails(step.exc)
                  /\ UNCHANGED <<results, tool_idx>>
    /\ UNCHANGED <<agent_class, tools, config, agent_input, current_state, attempt, last_error,
                   response, decisions, llm_log, llm_calls, extracted,
                   extract_calls>>

\* ReActAgent.execute: the round is over, append the tool messages, update_state
ReAct_ToolsDone ==
    /\ UNCHANGED not_avars
    /\ pc = "tools"
    /\ tool_idx > Len(response.tool_calls)
    /\ current_state' = ToolRoundState(current_state, response, results)
    /\ pc' = "loop"
    /\ UNCHANGED <<agent_class, tools, config, agent_input, attempt, last_error, response,
                   tool_idx, results, decisions, output, raised, llm_log, llm_calls,
                   executed, extracted,
                   extract_calls>>

\* ReActAgent.execute: no tool calls, extract_result and update_state
ReAct_Extract ==
    /\ UNCHANGED not_avars
    /\ pc = "extract"
    /\ LET x == ExtractResult(agent_class, response.content, current_state) IN
       IF x.exc.type = "none"
       THEN /\ extracted' = x.result
            /\ decisions' = decisions \o x.decisions
            /\ current_state' = ExtractState(current_state, response)
            /\ pc' = "loop"
            /\ UNCHANGED <<output, raised>>
       ELSE /\ RunFails(x.exc)
            /\ UNCHANGED <<extracted, decisions, current_state>>
    /\ extract_calls' = extract_calls + 1
    /\ UNCHANGED <<agent_class, tools, config, agent_input, attempt, last_error, response,
                   tool_idx, results, llm_log, llm_calls, executed>>

AgentStart ==
    /\ agent_class \in AgentClasses
    /\ tools \in ToolLists
    /\ config \in [max_retries : 0..MaxRetries, max_iterations : 0..MaxIterations]
    /\ agent_input \in [task_id : {"", "task_1"}]
    /\ pc = "run"
    /\ current_state = NoState
    /\ attempt = 0
    /\ last_error = "none"
    /\ response = NoResponse
    /\ tool_idx = 0
    /\ results = <<>>
    /\ decisions = <<>>
    /\ output = NoOutput
    /\ raised = NoExc
    /\ llm_log = <<>>
    /\ llm_calls = 0
    /\ executed = <<>>
    /\ extracted = NoExtract
    /\ extract_calls = 0

\* no agent run is under way
AgentIdle ==
    /\ agent_class = "none"
    /\ tools = {}
    /\ config = [max_retries |-> 0, max_iterations |-> 0]
    /\ agent_input = [task_id |-> ""]
    /\ pc = "idle"
    /\ current_state = NoState
    /\ attempt = 0
    /\ last_error = "none"
    /\ response = NoResponse
    /\ tool_idx = 0
    /\ results = <<>>
    /\ decisions = <<>>
    /\ output = NoOutput
    /\ raised = NoExc
    /\ llm_log = <<>>
    /\ llm_calls = 0
    /\ executed = <<>>
    /\ extracted = NoExtract
    /\ extract_calls = 0

AgentNext ==
    \/ Run_Start
    \/ Custom_Execute
    \/ ReAct_Loop
    \/ LLM_AttemptOk
    \/ LLM_AttemptFail
    \/ LLM_Exhausted
    \/ ReAct_Dispatch
    \/ ReAct_ToolCall
    \/ ReAct_ToolsDone
    \/ ReAct_Extract


----------------------------------------------------------------------------
\* MultiAgentWorkflow (workflows/engine.py)

AgentNames == <<"a1", "a2", "a3", "a4", "a5", "a6">>

\* the agent ids a workflow is built from
AgentIds == {AgentNames[i] : i \in 1..MaxAgents}

\* sequences over S without repetition, of length 1..n
InjSeqs(S, n) ==
    {q \in SeqsUpTo(S, n) : q # <<>> /\ \A i, j \in 1..Len(q) : i # j => q[i] # q[j]}

Range(q) == {q[i] : i \in 1..Len(q)}

NoGraph == [entry |-> "none", edges |-> {}, cond_from |-> "none", path_map |-> <<>>]

\* variant: the edge out of the last-but-one agent is left out
SequentialEdges_ShortChain(agent_order) ==
    {<<agent_order[i], agent_order[i + 1]>> : i \in 1..(Len(agent_order) - 2)}
    \cup {<<agent_order[Len(agent_order)], "END">>}

\* the unconditional edges setup_sequential adds
SequentialEdges(agent_order) ==
    {<<agent_order[i], agent_order[i + 1]>> : i \in 1..(Len(agent_order) - 1)}
    \cup {<<agent_order[Len(agent_order)], "END">>}

\* MultiAgentWorkflow.setup_sequential
SetupSequential(agent_order) ==
    [entry |-> agent_order[1], edges |-> SequentialEdges(agent_order),
     cond_from |-> "none", path_map |-> <<>>]

\* MultiAgentWorkflow.setup_parallel_then_aggregate
SetupParallel(aggregator) ==
    [entry |-> "parallel_executor",
     edges |-> {<<"parallel_executor", aggregator>>, <<aggregator, "END">>},
     cond_from |-> "none", path_map |-> <<>>]

\* variant: workers wire to the end instead of back to the supervisor
SupervisorEdges_ToEnd(supervisor, workers) == {<<w, "END">> : w \in workers}

\* the edges setup_supervisor adds from each worker
SupervisorEdges(supervisor, workers) == {<<w, supervisor>> : w \in workers}

\* MultiAgentWorkflow.setup_supervisor
SetupSupervisor(supervisor, workers) ==
    [entry |-> supervisor,
     edges |-> SupervisorEdges(supervisor, workers),
     cond_from |-> supervisor,
     path_map |-> [l \in workers \cup {"FINISH"} |-> IF l = "FINISH" THEN "END" ELSE l]]

\* state.get(key, {}) for the two per-node maps
GetMap(state, key) ==
    IF key \notin state.keys THEN <<>>
    ELSE IF key = "agent_outputs" THEN state.agent_outputs ELSE state.agent_errors

\* d.update(e)
Update(d, e) == [x \in (DOMAIN d) \cup (DOMAIN e) |-> IF x \in DOMAIN e THEN e[x] ELSE d[x]]

\* the output a handler produces
Out(id, form) == [by |-> id, form |-> form]

Pending == [kind |-> "pending", msg |-> "", agent_outputs |-> <<>>, value |-> Out("none", "none")]

\* What a handler call gives. "state": a new AgentState with its output recorded
\* under its own id; "plain": a dict without an agent_outputs key; "raise".
HandlerKinds == {"state", "plain", "raise"}

HandlerResult(id, kind, state) ==
    CASE kind = "raise" ->
           [kind |-> "exception", msg |-> "handler failed", agent_outputs |-> <<>>,
            value |-> Out("none", "none")]
      [] kind = "state" ->
           [kind |-> "state", msg |-> "",
            agent_outputs |-> Put(GetMap(state, "agent_outputs"), id, Out(id, "state")),
            value |-> Out("none", "none")]
      [] OTHER ->
           [kind |-> "plain", msg |-> "", agent_outputs |-> <<>>, value |-> Out(id, "plain")]

\* parallel_executor: the tasks list
RECURSIVE FanOutTasks(_, _)
FanOutTasks(parallel_agents, handlers) ==
    IF parallel_agents = <<>> THEN <<>>
    ELSE (IF Head(parallel_agents) \in handlers THEN <<Head(parallel_agents)>> ELSE <<>>)
         \o FanOutTasks(Tail(parallel_agents), handlers)

RECURSIVE FanOutFold(_, _, _, _)
\* parallel_executor: the loop over zip(parallel_agents, results)
FanOutFold(acc, parallel_agents, rs, i) ==
    IF i > Len(parallel_agents) \/ i > Len(rs) THEN acc
    ELSE LET agent_id == parallel_agents[i]
             r == rs[i]
             next ==
               CASE r.kind = "exception" ->
                      [acc EXCEPT !.errors = Put(acc.errors, agent_id, r.msg)]
                 [] r.kind = "state" ->
                      [acc EXCEPT !.outputs = Update(acc.outputs, r.agent_outputs)]
                 [] OTHER ->
                      [acc EXCEPT !.outputs = Put(acc.outputs, agent_id, r.value)]
         IN FanOutFold(next, parallel_agents, rs, i + 1)

\* parallel_executor: merge and AgentState(**dict(state), agent_outputs=...,
\* agent_errors=...), which is a TypeError when state already has one of the keys
FanOutMerge(state, parallel_agents, rs) ==
    LET acc == FanOutFold([outputs |-> GetMap(state, "agent_outputs"),
                           errors |-> GetMap(state, "agent_errors")],
                          parallel_agents, rs, 1)
    IN IF state.keys \cap {"agent_outputs", "agent_errors"} # {}
       THEN [exc |-> PyException("TypeError", "got multiple values for keyword argument"),
             state |-> state]
       ELSE [exc |-> NoExc,
             state |-> [state EXCEPT !.keys = state.keys \cup {"agent_outputs", "agent_errors"},
                                     !.agent_outputs = acc.outputs,
                                     !.agent_errors = acc.errors]]

\* the label route_condition gives: a pure function of the state
RouteCondition(script, state) ==
    IF state.iteration_count \in 1..Len(script) THEN script[state.iteration_count]
    ELSE "FINISH"

\* the node that runs after `node`: its unconditional edge, else its conditional
\* edge, else the run ends
NextNode(graph, script, node, state) ==
    IF \E e \in graph.edges : e[1] = node
    THEN (CHOOSE e \in graph.edges : e[1] = node)[2]
    ELSE IF node = graph.cond_from
    THEN graph.path_map[RouteCondition(script, state)]
    ELSE "END"

\* no workflow run is under way
WorkflowIdle ==
    /\ wf_template = "none"
    /\ agent_handlers = {}
    /\ wf_list = <<>>
    /\ route_script = <<>>
    /\ wf_graph = NoGraph
    /\ wf_pc = "idle"
    /\ wf_node = "none"
    /\ wf_state = [keys |-> {}, agent_outputs |-> <<>>, agent_errors |-> <<>>,
                   decisions |-> <<>>, iteration_count |-> 0]
    /\ wf_in = wf_state
    /\ tasks = <<>>
    /\ task_results = <<>>
    /\ wf_exc = NoExc
    /\ wf_trace = <<>>

\* the states a caller may hand to WorkflowEngine.run: AgentState is total=False,
\* so the two per-node maps may be absent, present and empty, or hold an
\* earlier output
InitialStates ==
    {[keys |-> ks, agent_outputs |-> o, agent_errors |-> <<>>, decisions |-> <<>>,
      iteration_count |-> 0] :
        ks \in {{}, {"agent_outputs", "agent_errors"}},
        o \in {<<>>, Put(<<>>, "a1", Out("a1", "prior"))}}

ValidInitialState(st) ==
    "agent_outputs" \notin st.keys => st.agent_outputs = <<>>

\* add_agent for every id of `registered`, then one of the three setup_* calls
WorkflowStart ==
    /\ wf_template \in {"sequential", "parallel", "supervisor"}
    /\ agent_handlers \in SUBSET AgentIds
    /\ wf_list \in InjSeqs(AgentIds, MaxAgents)
    /\ wf_template # "parallel" => agent_handlers = Range(wf_list)
    /\ route_script \in SeqsUpTo(Range(wf_list), MaxVisits)
    /\ wf_template # "supervisor" => route_script = <<>>
    /\ wf_graph = CASE wf_template = "sequential" -> SetupSequential(wf_list)
                    [] wf_template = "parallel" -> SetupParallel("aggregator")
                    [] OTHER -> SetupSupervisor("supervisor", Range(wf_list))
    /\ wf_pc = "ready"
    /\ wf_node = "none"
    /\ wf_state \in InitialStates
    /\ ValidInitialState(wf_state)
    /\ wf_in = wf_state
    /\ tasks = <<>>
    /\ task_results = <<>>
    /\ wf_exc = NoExc
    /\ wf_trace = <<>>

\* control moves to the node after `node`, or the run ends
Advance(node, state) ==
    LET nxt == NextNode(wf_graph, route_script, node, state)
    IN /\ wf_pc' = IF nxt = "END" THEN "ended" ELSE "at_node"
       /\ wf_node' = IF nxt = "END" THEN "none" ELSE nxt

\* WorkflowEngine.run: ainvoke starts at the entry point
Wf_Enter ==
    /\ wf_pc = "ready"
    /\ wf_pc' = "at_node"
    /\ wf_node' = wf_graph.entry
    /\ UNCHANGED <<not_wvars, wf_template, agent_handlers, wf_list, route_script, wf_graph,
                   wf_state, wf_in, tasks, task_results, wf_exc, wf_trace>>

\* the state after a node handler returned: a full state with its output
\* recorded (and possibly one more decision), or a partial update
ApplyHandler(node, kind, decided, state) ==
    LET r == HandlerResult(node, kind, state)
        counted == IF node = "supervisor"
                   THEN [state EXCEPT !.iteration_count = state.iteration_count + 1]
                   ELSE state
    IN IF kind = "state"
       THEN [counted EXCEPT !.keys = state.keys \cup {"agent_outputs"},
                            !.agent_outputs = r.agent_outputs,
                            !.decisions = IF decided
                                          THEN Append(state.decisions, [by |-> node])
                                          ELSE state.decisions]
       ELSE counted

\* one agent node runs its handler
Wf_RunNode ==
    /\ wf_pc = "at_node"
    /\ wf_node # "parallel_executor"
    /\ \E kind \in HandlerKinds, decided \in BOOLEAN :
         /\ decided => (kind = "state" /\ wf_template = "supervisor" /\ wf_node # "supervisor")
         /\ wf_node = "supervisor" => kind # "plain"
         /\ IF kind = "raise"
            THEN /\ wf_pc' = "aborted"
                 /\ wf_exc' = PyException("Exception", "handler failed")
                 /\ UNCHANGED <<wf_node, wf_state>>
            ELSE /\ wf_state' = ApplyHandler(wf_node, kind, decided, wf_state)
                 /\ Advance(wf_node, wf_state')
                 /\ UNCHANGED wf_exc
         /\ wf_trace' = Append(wf_trace, [node |-> wf_node, kind |-> kind, decided |-> decided])
    /\ UNCHANGED <<not_wvars, wf_template, agent_handlers, wf_list, route_script, wf_graph,
                   wf_in, tasks, task_results>>

\* parallel_executor up to asyncio.gather: one task per id with a handler,
\* or an immediate return of the state when there is none
Wf_FanOutLaunch ==
    /\ wf_pc = "at_node"
    /\ wf_node = "parallel_executor"
    /\ wf_in' = wf_state
    /\ tasks' = FanOutTasks(wf_list, agent_handlers)
    /\ task_results' = [i \in 1..Len(tasks') |-> Pending]
    /\ IF tasks' = <<>>
       THEN /\ Advance(wf_node, wf_state)
            /\ wf_trace' = Append(wf_trace, [node |-> wf_node, kind |-> "fanout", decided |-> FALSE])
       ELSE /\ wf_pc' = "gather"
            /\ UNCHANGED <<wf_node, wf_trace>>
    /\ UNCHANGED <<not_wvars, wf_template, agent_handlers, wf_list, route_script, wf_graph,
                   wf_state, wf_exc>>

\* one of the gathered tasks finishes, in any order
Wf_TaskDone ==
    /\ wf_pc = "gather"
    /\ \E i \in 1..Len(tasks), kind \in HandlerKinds :
         /\ task_results[i] = Pending
         /\ task_results' = [task_results EXCEPT ![i] = HandlerResult(tasks[i], kind, wf_in)]
    /\ UNCHANGED <<not_wvars, wf_template, agent_handlers, wf_list, route_script, wf_graph,
                   wf_pc, wf_node, wf_state, wf_in, tasks, wf_exc, wf_trace>>

\* parallel_executor after gather: merge the results and return the new state
Wf_FanOutMerge ==
    /\ wf_pc = "gather"
    /\ \A i \in 1..Len(tasks) : task_results[i] # Pending
    /\ LET m == FanOutMerge(wf_in, wf_list, task_results)
       IN IF m.exc # NoExc
          THEN /\ wf_pc' = "aborted"
               /\ wf_exc' = m.exc
               /\ UNCHANGED <<wf_node, wf_state>>
          ELSE /\ wf_state' = m.state
               /\ Advance(wf_node, wf_state')
               /\ UNCHANGED wf_exc
    /\ wf_trace' = Append(wf_trace, [node |-> wf_node, kind |-> "fanout", decided |-> FALSE])
    /\ UNCHANGED <<not_wvars, wf_template, agent_handlers, wf_list, route_script, wf_graph,
                   wf_in, tasks, task_results>>

WorkflowNext ==
    \/ Wf_Enter
    \/ Wf_RunNode
    \/ Wf_FanOutLaunch
    \/ Wf_TaskDone
    \/ Wf_FanOutMerge

----------------------------------------------------------------------------
\* Decisions: extract_result on a parsed payload, and Decision.confidence_level

FieldNames == {"decision", "confidence", "reasoning", "risk_factors", "recommended_action"}

\* the JSON objects a model may answer with; a confidence is any JSON number,
\* here in hundredths: negative, within [0, 1], or above 1 (such as 1.5)
JsonObjects ==
    {JsonValue("object", P,
               IF "decision" \in P THEN d ELSE "",
               IF "confidence" \in P THEN c ELSE 0,
               IF "reasoning" \in P THEN r ELSE <<>>,
               IF "risk_factors" \in P THEN <<"volatility">> ELSE <<>>,
               IF "recommended_action" \in P THEN "add on dips" ELSE "") :
        P \in SUBSET FieldNames,
        d \in DecisionTypes \cup {"strong_buy"},
        c \in {-20, 0, 50, 82, 100, 150},
        r \in {<<>>, <<"strong momentum">>}}

\* the values json.loads can return
JsonValues ==
    JsonObjects \cup {JsonArray, JsonValue("number", {}, "", 0, <<>>, <<>>, ""),
                      JsonValue("null", {}, "", 0, <<>>, <<>>, "")}

NoDecision ==
    [decision_type |-> "none", symbol |-> "", confidence |-> 0, reasoning |-> <<>>,
     risk_factors |-> <<>>, recommended_action |-> "", supporting_data |-> <<>>]

\* Decision(decision_type=HOLD, symbol=..., confidence=c, reasoning=[])
BuiltDecision(c) == [NoDecision EXCEPT !.decision_type = "hold", !.symbol = "600519",
                                       !.confidence = c]

NoExtractReturn == [exc |-> NoExc, result |-> NoExtract, decisions |-> <<>>]

\* variant: every lower bound exclusive
ConfidenceLevel_Exclusive(confidence) ==
    IF confidence > 90 THEN "very_high"
    ELSE IF confidence > 75 THEN "high"
    ELSE IF confidence > 50 THEN "medium"
    ELSE IF confidence > 25 THEN "low"
    ELSE "very_low"

\* Decision.confidence_level, confidence in hundredths
ConfidenceLevel(confidence) ==
    IF confidence >= 90 THEN "very_high"
    ELSE IF confidence >= 75 THEN "high"
    ELSE IF confidence >= 50 THEN "medium"
    ELSE IF confidence >= 25 THEN "low"
    ELSE "very_low"

\* either a parsed payload about to go through extract_result, or a Decision
\* built directly with a confidence in [0, 1]
DecisionStart ==
    /\ dec_out = NoExtractReturn
    /\ dec_level = "none"
    /\ \/ /\ dec_pc = "ready"
          /\ dec_value \in JsonValues
          /\ dec_state \in {[NoState EXCEPT !.task_input = TaskInput(b)] : b \in BOOLEAN}
          /\ dec_decision = NoDecision
       \/ /\ dec_pc = "built"
          /\ dec_value = NoJson
          /\ dec_state = NoState
          /\ dec_decision \in {BuiltDecision(c) : c \in 0..100}

\* nothing is being extracted
DecisionIdle ==
    /\ dec_pc = "idle"
    /\ dec_value = NoJson
    /\ dec_state = NoState
    /\ dec_out = NoExtractReturn
    /\ dec_decision = NoDecision
    /\ dec_level = "none"

\* extract_result from the point where json.loads has returned dec_value
Dec_Extract ==
    /\ dec_pc = "ready"
    /\ dec_out' = AnalyzerExcept(AnalyzerParsed(dec_value, dec_state), <<"obj">>)
    /\ IF dec_out'.decisions # <<>>
       THEN dec_pc' = "extracted" /\ dec_decision' = dec_out'.decisions[1]
       ELSE dec_pc' = "done" /\ UNCHANGED dec_decision
    /\ UNCHANGED <<not_dvars, dec_value, dec_state, dec_level>>

\* a read of Decision.confidence_level
Dec_Level ==
    /\ dec_pc \in {"extracted", "built"}
    /\ dec_level' = ConfidenceLevel(dec_decision.confidence)
    /\ dec_pc' = "done"
    /\ UNCHANGED <<not_dvars, dec_value, dec_state, dec_out, dec_decision>>

DecisionNext ==
    \/ Dec_Extract
    \/ Dec_Level

----------------------------------------------------------------------------
\* PlanAndExecuteAgent (core/base.py)

PlanTokenNames == <<"plan0", "plan1", "plan2", "plan3", "plan4", "plan5">>

\* {"plan": [...]} with 0..MaxSteps steps
PlanListTokens == {PlanTokenNames[n + 1] : n \in 0..MaxSteps}

\* JSON texts a plan response may hold: an object with a plan list, an object
\* without a "plan" key, an object whose "plan" is null, and a JSON array
PlanJsonTokens == PlanListTokens \cup {"noplan", "plannull", "arr"}

PlanContents == SeqsUpTo({"FJ", "F", "ws", "txt"} \cup PlanJsonTokens, MaxPlanLen)

\* a model-made step
PlanStep(i) == [step |-> i, action |-> "model", task |-> "none"]

\* the single step that executes the task as given
FallbackPlan ==
    [kind |-> "list",
     steps |-> <<[step |-> 1, action |-> "Execute task directly", task |-> "content"]>>]

NoPlan == [kind |-> "list", steps |-> <<>>]

\* the text create_plan hands to json.loads
PlanSelectJson(content) ==
    IF Contains(content, "FJ") THEN SplitFirst(SplitSecond(content, "FJ"), "F")
    ELSE IF Contains(content, "F") THEN SplitFirst(SplitSecond(content, "F"), "F")
    ELSE content

\* json.loads, which skips surrounding whitespace
PlanJsonLoads(s) ==
    IF Len(Strip(s)) = 1 /\ Strip(s)[1] \in PlanJsonTokens
    THEN [ok |-> TRUE, value |-> Strip(s)[1]]
    ELSE [ok |-> FALSE, value |-> "none"]

\* plan_data.get("plan", []) on the parsed value
PlanGet(token) ==
    CASE token \in PlanListTokens ->
           [exc |-> NoExc,
            plan |-> [kind |-> "list",
                      steps |-> [i \in 1..((CHOOSE n \in 0..MaxSteps :
                                              PlanTokenNames[n + 1] = token)) |-> PlanStep(i)]]]
      [] token = "noplan" -> [exc |-> NoExc, plan |-> NoPlan]
      [] token = "plannull" -> [exc |-> NoExc, plan |-> [kind |-> "null", steps |-> <<>>]]
      [] OTHER ->
           [exc |-> PyException("AttributeError", "'list' object has no attribute 'get'"),
            plan |-> NoPlan]

\* the exception types create_plan catches
PlanCatches == {"JSONDecodeError"}

\* create_plan once invoke_llm has returned `content`
CreatePlan(content) ==
    LET parsed == PlanJsonLoads(PlanSelectJson(content))
        t == IF parsed.ok THEN PlanGet(parsed.value)
             ELSE [exc |-> PyException("JSONDecodeError", "Expecting value"), plan |-> NoPlan]
    IN IF t.exc.type \in PlanCatches THEN [exc |-> NoExc, plan |-> FallbackPlan] ELSE t

\* execute_step: what it returns once invoke_llm has answered
StepResult(step) == [step |-> step, result |-> <<"txt">>]

\* variant: the count leaves the last step out
SummarizeResults_OneShort(step_results) ==
    [steps_completed |-> IF step_results = <<>> THEN 0 ELSE Len(step_results) - 1,
     results |-> step_results]

\* summarize_results
SummarizeResults(step_results) ==
    [steps_completed |-> Len(step_results), results |-> step_results]

PlanStart ==
    /\ plan_pc = "planning"
    /\ plan_response = <<>>
    /\ plan = NoPlan
    /\ plan_idx = 0
    /\ plan_results = <<>>
    /\ plan_output = NoOutput
    /\ plan_raised = NoExc
    /\ plan_phases = <<>>
    /\ plan_invocations = <<>>

\* no PlanAndExecuteAgent run is under way
PlanIdle ==
    /\ plan_pc = "idle"
    /\ plan_response = <<>>
    /\ plan = NoPlan
    /\ plan_idx = 0
    /\ plan_results = <<>>
    /\ plan_output = NoOutput
    /\ plan_raised = NoExc
    /\ plan_phases = <<>>
    /\ plan_invocations = <<>>

\* run's except clauses, when `e` leaves execute
PlanFails(e) ==
    /\ plan_pc' = "done"
    /\ plan_output' = RunOnException(e).output
    /\ plan_raised' = RunOnException(e).raised

LLMError == AgentError("LLM_ERROR", "LLM call failed after retries", "rate_limit")

\* execute: create_plan, whose invoke_llm returns a response or gives up
Plan_CreatePlan ==
    /\ plan_pc = "planning"
    /\ plan_phases' = Append(plan_phases, "planning")
    /\ plan_invocations' = Append(plan_invocations, [purpose |-> "plan", step |-> 0])
    /\ \/ /\ PlanFails(LLMError)
          /\ UNCHANGED <<plan_response, plan, plan_idx>>
       \/ \E content \in PlanContents :
            /\ plan_response' = content
            /\ LET r == CreatePlan(content) IN
               IF r.exc # NoExc
               THEN PlanFails(r.exc) /\ UNCHANGED <<plan, plan_idx>>
               ELSE /\ plan' = r.plan
                    /\ plan_idx' = 1
                    /\ plan_pc' = "executing"
                    /\ UNCHANGED <<plan_output, plan_raised>>
    /\ UNCHANGED <<not_pvars, plan_results>>

\* execute: one pass of `for step in plan`, or the end of the loop
Plan_ExecuteStep ==
    /\ plan_pc = "executing"
    /\ plan_phases' = IF plan_idx = 1 THEN Append(plan_phases, "executing") ELSE plan_phases
    /\ IF plan.kind # "list"
       THEN /\ PlanFails(PyException("TypeError", "'NoneType' object is not iterable"))
            /\ UNCHANGED <<plan_idx, plan_results>>
       ELSE IF plan_idx > Len(plan.steps)
       THEN /\ plan_pc' = "summarizing"
            /\ UNCHANGED <<plan_idx, plan_results, plan_output, plan_raised>>
       ELSE \/ /\ PlanFails(LLMError)
               /\ UNCHANGED <<plan_idx, plan_results>>
            \/ /\ plan_results' = Append(plan_results, StepResult(plan.steps[plan_idx]))
               /\ plan_idx' = plan_idx + 1
               /\ UNCHANGED <<plan_pc, plan_output, plan_raised>>
    /\ plan_invocations' =
          IF plan.kind = "list" /\ plan_idx <= Len(plan.steps)
          THEN Append(plan_invocations, [purpose |-> "step", step |-> plan.steps[plan_idx].step])
          ELSE plan_invocations
    /\ UNCHANGED <<not_pvars, plan_response, plan>>

\* execute: summarize_results, and run's return
Plan_Summarize ==
    /\ plan_pc = "summarizing"
    /\ plan_phases' = Append(plan_phases, "summarizing")
    /\ plan_output' = CompletedOutput(SummarizeResults(plan_results), <<>>)
    /\ plan_pc' = "done"
    /\ UNCHANGED <<not_pvars, plan_response, plan, plan_idx, plan_results, plan_raised,
                   plan_invocations>>

PlanNext ==
    \/ Plan_CreatePlan
    \/ Plan_ExecuteStep
    \/ Plan_Summarize

----------------------------------------------------------------------------
\* AgentFactory.create (core/factory.py)

AgentTypes == {"strategy_analyzer", "risk_assessor"}

\* agent_registry._agents: per type, no class, or a class whose constructor
\* returns or raises
Registries == [AgentTypes -> {"absent", "ok", "raises"}]

\* a factory callable: not given, working, or raising
FactoryKinds == {"none", "ok", "raises"}

NoAgent == [kind |-> "none", agent_type |-> "none", llm |-> "none", tools |-> "none"]

FactoryFailure == PyException("RuntimeError", "factory failed")

\* AgentFactory.create
Create(registry, factory, call) ==
    LET cls == registry[call.agent_type]
        model == IF call.llm # "none" THEN call.llm ELSE "made"
        tool_list == IF call.tools = "none" /\ call.allowed_tools
                 THEN (IF factory.tool_factory # "none" THEN "made" ELSE "empty")
                 ELSE call.tools
    IN IF cls = "absent"
       THEN [agent |-> NoAgent,
             exc |-> AgentError("AGENT_NOT_FOUND", "Agent type is not registered", "none")]
       ELSE IF call.llm = "none" /\ factory.llm_factory = "none"
       THEN [agent |-> NoAgent,
             exc |-> AgentError("AGENT_INITIALIZATION_FAILED",
                                "No LLM instance or factory provided", "none")]
       ELSE IF call.llm = "none" /\ factory.llm_factory = "raises"
       THEN [agent |-> NoAgent, exc |-> FactoryFailure]
       ELSE IF call.tools = "none" /\ call.allowed_tools /\ factory.tool_factory = "raises"
       THEN [agent |-> NoAgent, exc |-> FactoryFailure]
       ELSE IF cls = "raises"
       THEN [agent |-> NoAgent,
             exc |-> AgentError("AGENT_INITIALIZATION_FAILED", "Failed to create agent",
                                "constructor")]
       ELSE [agent |-> [kind |-> "agent", agent_type |-> call.agent_type, llm |-> model,
                        tools |-> tool_list],
             exc |-> NoExc]

FactoryStart ==
    /\ fac_pc = "call"
    /\ fac_registry \in Registries
    /\ fac_factory \in [llm_factory : FactoryKinds, tool_factory : FactoryKinds]
    /\ fac_call \in [agent_type : AgentTypes, llm : {"none", "given"},
                     tools : {"none", "given"}, allowed_tools : BOOLEAN]
    /\ fac_agent = NoAgent
    /\ fac_raised = NoExc

\* no create call is under way
FactoryIdle ==
    /\ fac_pc = "idle"
    /\ fac_registry = [t \in AgentTypes |-> "absent"]
    /\ fac_factory = [llm_factory |-> "none", tool_factory |-> "none"]
    /\ fac_call = [agent_type |-> "strategy_analyzer", llm |-> "none", tools |-> "none",
                   allowed_tools |-> FALSE]
    /\ fac_agent = NoAgent
    /\ fac_raised = NoExc

\* one call of create
Fac_Create ==
    /\ fac_pc = "call"
    /\ fac_agent' = Create(fac_registry, fac_factory, fac_call).agent
    /\ fac_raised' = Create(fac_registry, fac_factory, fac_call).exc
    /\ fac_pc' = "done"
    /\ UNCHANGED <<not_fvars, fac_registry, fac_factory, fac_call>>

FactoryNext ==
    \/ Fac_Create

----------------------------------------------------------------------------
\* Two runs of one compiled workflow (WorkflowEngine.run called twice)

RunIds == {AgentNames[i] : i \in 1..MaxRunAgents}

Runs == {1, 2}

\* a run that has not begun, from the state its caller passed
FreshRun(init) ==
    [pc |-> "ready", node |-> "none", init |-> init, state |-> init, fan_in |-> init,
     tasks |-> <<>>, results |-> <<>>, exc |-> NoExc]

\* variant: one state object held by the graph and read by every run
StateOf_GraphScoped(rs, r) == rs[1].state

\* the state a step of run r receives: the value of that run's own invocation
StateOf(rs, r) == rs[r].state

\* the results gather returns when every handler is a function of its input
GatherAll(ts, handlers, state) ==
    [i \in 1..Len(ts) |-> HandlerResult(ts[i], handlers[ts[i]], state)]

RECURSIVE RunAlone(_, _, _, _, _, _)
\* what one run, executed on its own, ends with
RunAlone(graph, script, handlers, list, node, state) ==
    IF node = "END" THEN [state |-> state, exc |-> NoExc]
    ELSE IF node = "parallel_executor"
    THEN LET ts == FanOutTasks(list, Range(list))
             m == FanOutMerge(state, list, GatherAll(ts, handlers, state))
         IN IF m.exc # NoExc THEN [state |-> state, exc |-> m.exc]
            ELSE RunAlone(graph, script, handlers, list,
                          NextNode(graph, script, node, m.state), m.state)
    ELSE IF handlers[node] = "raise"
    THEN [state |-> state, exc |-> PyException("Exception", "handler failed")]
    ELSE LET st == ApplyHandler(node, handlers[node], FALSE, state)
         IN RunAlone(graph, script, handlers, list, NextNode(graph, script, node, st), st)

RunsStart ==
    /\ run_template \in {"sequential", "parallel", "supervisor"}
    /\ run_list \in InjSeqs(RunIds, MaxRunAgents)
    /\ run_script \in SeqsUpTo(Range(run_list), MaxRunVisits)
    /\ run_template # "supervisor" => run_script = <<>>
    /\ run_graph = CASE run_template = "sequential" -> SetupSequential(run_list)
                     [] run_template = "parallel" -> SetupParallel("aggregator")
                     [] OTHER -> SetupSupervisor("supervisor", Range(run_list))
    /\ run_handlers \in {h \in [RunIds \cup {"aggregator", "supervisor"} -> HandlerKinds] :
                            h["aggregator"] = "state" /\ h["supervisor"] = "state"}
    /\ run_compiled = FALSE
    /\ \E s1, s2 \in {st \in InitialStates : ValidInitialState(st)} :
         /\ s1 # s2
         /\ runs = [r \in Runs |-> FreshRun(IF r = 1 THEN s1 ELSE s2)]

\* no pair of runs is under way
RunsIdle ==
    /\ run_template = "none"
    /\ run_list = <<>>
    /\ run_script = <<>>
    /\ run_graph = NoGraph
    /\ run_handlers = <<>>
    /\ run_compiled = FALSE
    /\ runs = <<>>

\* run r moves on from `node` with state `st`
RunAdvance(r, node, st) ==
    LET nxt == NextNode(run_graph, run_script, node, st)
    IN [runs[r] EXCEPT !.state = st,
                       !.pc = IF nxt = "END" THEN "ended" ELSE "at_node",
                       !.node = IF nxt = "END" THEN "none" ELSE nxt]

\* WorkflowEngine.run: compile on first use, then ainvoke from the entry point
Mr_Enter(r) ==
    /\ runs[r].pc = "ready"
    /\ run_compiled' = TRUE
    /\ runs' = [runs EXCEPT ![r] = [@ EXCEPT !.pc = "at_node", !.node = run_graph.entry]]
    /\ UNCHANGED <<not_rvars, run_template, run_list, run_script, run_graph, run_handlers>>

\* one agent node of run r
Mr_RunNode(r) ==
    /\ runs[r].pc = "at_node"
    /\ runs[r].node # "parallel_executor"
    /\ runs' = [runs EXCEPT ![r] =
                 IF run_handlers[runs[r].node] = "raise"
                 THEN [@ EXCEPT !.pc = "aborted",
                                !.exc = PyException("Exception", "handler failed")]
                 ELSE RunAdvance(r, runs[r].node,
                                 ApplyHandler(runs[r].node, run_handlers[runs[r].node], FALSE,
                                              StateOf(runs, r)))]
    /\ UNCHANGED <<not_rvars, run_template, run_list, run_script, run_graph, run_handlers,
                   run_compiled>>

\* parallel_executor of run r up to asyncio.gather
Mr_FanOutLaunch(r) ==
    /\ runs[r].pc = "at_node"
    /\ runs[r].node = "parallel_executor"
    /\ LET ts == FanOutTasks(run_list, Range(run_list))
       IN runs' = [runs EXCEPT ![r] =
                     [@ EXCEPT !.pc = "gather", !.fan_in = StateOf(runs, r), !.tasks = ts,
                               !.results = [i \in 1..Len(ts) |-> Pending]]]
    /\ UNCHANGED <<not_rvars, run_template, run_list, run_script, run_graph, run_handlers,
                   run_compiled>>

\* one gathered task of run r finishes
Mr_TaskDone(r) ==
    /\ runs[r].pc = "gather"
    /\ \E i \in 1..Len(runs[r].tasks) :
         /\ runs[r].results[i] = Pending
         /\ runs' = [runs EXCEPT ![r].results[i] =
                       HandlerResult(runs[r].tasks[i], run_handlers[runs[r].tasks[i]],
                                     runs[r].fan_in)]
    /\ UNCHANGED <<not_rvars, run_template, run_list, run_script, run_graph, run_handlers,
                   run_compiled>>

\* parallel_executor of run r after gather
Mr_FanOutMerge(r) ==
    /\ runs[r].pc = "gather"
    /\ \A i \in 1..Len(runs[r].tasks) : runs[r].results[i] # Pending
    /\ LET m == FanOutMerge(runs[r].fan_in, run_list, runs[r].results)
       IN runs' = [runs EXCEPT ![r] =
                     IF m.exc # NoExc THEN [@ EXCEPT !.pc = "aborted", !.exc = m.exc]
                     ELSE RunAdvance(r, runs[r].node, m.state)]
    /\ UNCHANGED <<not_rvars, run_template, run_list, run_script, run_graph, run_handlers,
                   run_compiled>>

RunsNext ==
    \/ \E r \in Runs : Mr_Enter(r)
    \/ \E r \in Runs : Mr_RunNode(r)
    \/ \E r \in Runs : Mr_FanOutLaunch(r)
    \/ \E r \in Runs : Mr_TaskDone(r)
    \/ \E r \in Runs : Mr_FanOutMerge(r)

----------------------------------------------------------------------------
\* State objects: the dicts and lists behind AgentState values, by identity.
\* A heap holds state dicts (key -> scalar or object id), message lists and
\* the dicts tool_results, agent_outputs and agent_errors refer to.

EmptyHeap == [states |-> <<>>, lists |-> <<>>, maps |-> <<>>]

\* the state _prepare_initial_state builds, and one a caller built with fewer keys
InitialHeaps ==
    {[states |-> <<[messages |-> 1, tool_results |-> 1, agent_outputs |-> 2,
                    agent_errors |-> 3, iteration_count |-> 0,
                    max_iterations |-> MaxIterations, should_end |-> FALSE]>>,
      lists |-> <<<<"human">>>>,
      maps |-> <<<<>>, <<>>, <<>>>>],
     [states |-> <<[messages |-> 1, iteration_count |-> 0,
                    max_iterations |-> MaxIterations]>>,
      lists |-> <<<<"human">>>>,
      maps |-> <<>>]}

\* state.get(key, default) for a key holding a list or a dict
ListOf(h, ref, key) ==
    IF key \in DOMAIN h.states[ref] THEN h.lists[h.states[ref][key]] ELSE <<>>
MapOf(h, ref, key) ==
    IF key \in DOMAIN h.states[ref] THEN h.maps[h.states[ref][key]] ELSE <<>>

\* everything reachable from the state object `ref`
Deep(h, ref) ==
    [dict |-> h.states[ref],
     messages |-> ListOf(h, ref, "messages"),
     tool_results |-> MapOf(h, ref, "tool_results"),
     agent_outputs |-> MapOf(h, ref, "agent_outputs"),
     agent_errors |-> MapOf(h, ref, "agent_errors")]

NoDeep == [dict |-> <<>>, messages |-> <<>>, tool_results |-> <<>>,
           agent_outputs |-> <<>>, agent_errors |-> <<>>]

\* variant: the updates are written into the dict that was passed in
UpdateStateObj_InPlace(h, ref, updates) ==
    [heap |-> [h EXCEPT !.states[ref] = Update(h.states[ref], updates)],
     ref |-> ref, exc |-> NoExc]

\* BaseAgent.update_state: new_state = dict(state); new_state.update(updates)
UpdateStateObj(h, ref, updates) ==
    [heap |-> [h EXCEPT !.states = Append(h.states, Update(h.states[ref], updates))],
     ref |-> Len(h.states) + 1, exc |-> NoExc]

\* ToolMessage contents for the calls of one round
ToolMessagesOf(calls) == [i \in 1..Len(calls) |-> "tool"]

\* {tc["name"]: r for tc, r in zip(tool_calls, tool_results)}
ToolResultsOf(calls) == [n \in Range(calls) |-> "result"]

\* one pass of the ReAct loop body after invoke_llm returned a response with
\* the tool calls `calls` (none: the extract_result branch)
ReActStepObj(h, ref, calls) ==
    LET st == h.states[ref]
        new_messages == (ListOf(h, ref, "messages") \o <<"ai">>) \o ToolMessagesOf(calls)
        h1 == [h EXCEPT !.lists = Append(h.lists, new_messages)]
        h2 == [h1 EXCEPT !.maps = Append(h1.maps, Update(MapOf(h, ref, "tool_results"),
                                                         ToolResultsOf(calls)))]
    IN IF calls # <<>>
       THEN UpdateStateObj(h2, ref,
                [messages |-> Len(h1.lists), iteration_count |-> st.iteration_count + 1,
                 tool_results |-> Len(h2.maps)])
       ELSE UpdateStateObj(h1, ref,
                [messages |-> Len(h1.lists), should_end |-> TRUE,
                 iteration_count |-> st.iteration_count + 1])

\* the view of a state object that handlers and the merge read
StateView(h, ref) ==
    [keys |-> DOMAIN h.states[ref] \cap {"agent_outputs", "agent_errors"},
     agent_outputs |-> MapOf(h, ref, "agent_outputs"),
     agent_errors |-> MapOf(h, ref, "agent_errors"),
     decisions |-> <<>>, iteration_count |-> 0]

\* parallel_executor on the state object `ref`: new_outputs and new_errors are
\* fresh dicts, and the returned AgentState is a fresh dict; when the call
\* raises, the fresh dicts are dropped
FanOutObj(h, ref, parallel_agents, rs) ==
    LET m == FanOutMerge(StateView(h, ref), parallel_agents, rs)
        acc == FanOutFold([outputs |-> MapOf(h, ref, "agent_outputs"),
                           errors |-> MapOf(h, ref, "agent_errors")], parallel_agents, rs, 1)
        h1 == [h EXCEPT !.maps = Append(Append(h.maps, acc.outputs), acc.errors)]
    IN IF m.exc # NoExc THEN [heap |-> h, ref |-> 0, exc |-> m.exc]
       ELSE [heap |-> [h1 EXCEPT !.states =
                         Append(h1.states,
                                Update(h.states[ref],
                                       [agent_outputs |-> Len(h.maps) + 1,
                                        agent_errors |-> Len(h.maps) + 2]))],
             ref |-> Len(h.states) + 1, exc |-> NoExc]

ObjStart ==
    /\ obj_heap \in InitialHeaps
    /\ obj_cur = 1
    /\ obj_given = 0
    /\ obj_before = NoDeep
    /\ obj_step = "none"
    /\ obj_exc = NoExc

\* no state object exists
ObjIdle ==
    /\ obj_heap = EmptyHeap
    /\ obj_cur = 0
    /\ obj_given = 0
    /\ obj_before = NoDeep
    /\ obj_step = "none"
    /\ obj_exc = NoExc

\* a step was given obj_cur and produced r
ObjStepDone(name, r) ==
    /\ obj_heap' = r.heap
    /\ obj_given' = obj_cur
    /\ obj_before' = Deep(obj_heap, obj_cur)
    /\ obj_cur' = IF r.exc = NoExc THEN r.ref ELSE obj_cur
    /\ obj_exc' = r.exc
    /\ obj_step' = name

\* a call of update_state
Obj_UpdateState ==
    /\ obj_cur # 0
    /\ Len(obj_heap.states) < MaxHeap
    /\ \E updates \in {[iteration_count |-> obj_heap.states[obj_cur].iteration_count + 1],
                       [should_end |-> TRUE], [current_agent |-> "a1"]} :
         ObjStepDone("update_state", UpdateStateObj(obj_heap, obj_cur, updates))
    /\ UNCHANGED not_ovars

\* one pass of the loop of ReActAgent.execute
Obj_ReActStep ==
    /\ obj_cur # 0
    /\ Len(obj_heap.states) < MaxHeap
    /\ ~(("should_end" \in DOMAIN obj_heap.states[obj_cur])
         /\ obj_heap.states[obj_cur].should_end)
    /\ obj_heap.states[obj_cur].iteration_count < obj_heap.states[obj_cur].max_iterations
    /\ \E calls \in SeqsUpTo(ToolNames, MaxCalls) :
         ObjStepDone("react", ReActStepObj(obj_heap, obj_cur, calls))
    /\ UNCHANGED not_ovars

\* the fan-out node over two sub-agents
Obj_FanOut ==
    /\ obj_cur # 0
    /\ Len(obj_heap.states) < MaxHeap
    /\ \E k1, k2 \in HandlerKinds :
         LET list == <<"a1", "a2">>
             view == StateView(obj_heap, obj_cur)
             rs == <<HandlerResult("a1", k1, view), HandlerResult("a2", k2, view)>>
         IN ObjStepDone("fanout", FanOutObj(obj_heap, obj_cur, list, rs))
    /\ UNCHANGED not_ovars

ObjNext ==
    \/ Obj_UpdateState
    \/ Obj_ReActStep
    \/ Obj_FanOut

----------------------------------------------------------------------------
\* ToolRegistry (tools/base.py)

RegistryNames == {"get_quote", "calc_risk"}

ToolCategories == {"market_data", "risk"}

\* d.pop(key, None)
Pop(d, k) == [x \in (DOMAIN d) \ {k} |-> d[x]]

\* ToolRegistry.register; metadata "none" is a call without metadata
Register(reg, name, tool, metadata) ==
    [tools |-> Put(reg.tools, name, tool),
     metadata |-> IF metadata # "none" THEN Put(reg.metadata, name, metadata)
                  ELSE reg.metadata]

\* ToolRegistry.unregister
Unregister(reg, name) == [tools |-> Pop(reg.tools, name), metadata |-> Pop(reg.metadata, name)]

\* ToolRegistry.clear
Clear(reg) == [tools |-> <<>>, metadata |-> <<>>]

\* ToolRegistry.get; 0 is None
Get(reg, name) == IF name \in DOMAIN reg.tools THEN reg.tools[name] ELSE 0

\* ToolRegistry.get_by_category: a tool without metadata is compared through
\* a ToolMetadata made with the category asked for
GetByCategory(reg, category) ==
    {reg.tools[n] : n \in {m \in DOMAIN reg.tools :
                             (IF m \in DOMAIN reg.metadata THEN reg.metadata[m]
                              ELSE category) = category}}

RegistryStart ==
    /\ tool_registry = [tools |-> <<>>, metadata |-> <<>>]
    /\ reg_ops = 0
    /\ reg_latest = <<>>

\* the registry is not in use
RegistryIdle ==
    /\ tool_registry = [tools |-> <<>>, metadata |-> <<>>]
    /\ reg_ops = -1
    /\ reg_latest = <<>>

\* register(tool, metadata): every call brings a new tool object
Reg_Register ==
    /\ reg_ops \in 0..(MaxOps - 1)
    /\ \E name \in RegistryNames, metadata \in ToolCategories \cup {"none"} :
         /\ tool_registry' = Register(tool_registry, name, reg_ops + 1, metadata)
         /\ reg_latest' = Put(reg_latest, name, [tool |-> reg_ops + 1, category |-> metadata])
    /\ reg_ops' = reg_ops + 1
    /\ UNCHANGED not_gvars

Reg_Unregister ==
    /\ reg_ops \in 0..(MaxOps - 1)
    /\ \E name \in RegistryNames :
         /\ tool_registry' = Unregister(tool_registry, name)
         /\ reg_latest' = Pop(reg_latest, name)
    /\ reg_ops' = reg_ops + 1
    /\ UNCHANGED not_gvars

Reg_Clear ==
    /\ reg_ops \in 0..(MaxOps - 1)
    /\ tool_registry' = Clear(tool_registry)
    /\ reg_latest' = <<>>
    /\ reg_ops' = reg_ops + 1
    /\ UNCHANGED not_gvars

RegistryNext ==
    \/ Reg_Register
    \/ Reg_Unregister
    \/ Reg_Clear

----------------------------------------------------------------------------
\* Strategy workflows (workflows/strategy_workflow.py): the technical-analysis
\* flow and the standard decision flow, run by WorkflowEngine.run

Symbols == {"600519", "000001"}

\* state.get(key, default)
StateGet(state, key, default) == IF key \in DOMAIN state THEN state[key] ELSE default

\* AgentState(**dict(state), **kwargs): a keyword that dict(state) already
\* holds is passed twice, which is a TypeError
NewAgentState(state, kwargs) ==
    IF (DOMAIN state) \cap (DOMAIN kwargs) # {}
    THEN [exc |-> PyException("TypeError", "got multiple values for keyword argument"),
          state |-> state]
    ELSE [exc |-> NoExc, state |-> Update(state, kwargs)]

\* fetch_data: the market_data dict
MarketData(symbol) ==
    [symbol |-> symbol,
     prices |-> <<100, 101, 99, 102, 103, 101, 104, 105, 103, 106>>,
     volumes |-> <<1000, 1200, 900, 1100, 1300, 1000, 1400, 1500, 1100, 1600>>]

\* TechnicalAnalysisWorkflow.setup: fetch_data
FetchData(symbol, state) ==
    NewAgentState(state, [tool_results |-> [market_data |-> MarketData(symbol)]])

RECURSIVE SumLast(_, _)
\* sum(prices[-n:])
SumLast(prices, n) ==
    IF n = 0 \/ prices = <<>> THEN 0
    ELSE prices[Len(prices)] + SumLast(SubSeq(prices, 1, Len(prices) - 1), n - 1)

\* calculate_indicators: the indicators dict; averages in hundredths
Indicators(prices) ==
    LET names == (IF Len(prices) >= 5 THEN {"sma_5"} ELSE {})
                 \cup (IF Len(prices) >= 10 THEN {"sma_10"} ELSE {})
                 \cup (IF Len(prices) >= 2 THEN {"trend"} ELSE {})
    IN [k \in names |->
          CASE k = "sma_5" -> (SumLast(prices, 5) * 100) \div 5
            [] k = "sma_10" -> (SumLast(prices, 10) * 100) \div 10
            [] OTHER -> IF prices[Len(prices)] > prices[Len(prices) - 1]
                        THEN "up" ELSE "down"]

\* TechnicalAnalysisWorkflow.setup: calculate_indicators
CalculateIndicators(state) ==
    LET held == StateGet(state, "tool_results", <<>>)
        market_data == StateGet(held, "market_data", <<>>)
        prices == StateGet(market_data, "prices", <<>>)
    IN NewAgentState(state,
                     [tool_results |-> Put(held, "indicators", Indicators(prices))])

\* TechnicalAnalysisWorkflow.setup: generate_signal; confidence in hundredths
GenerateSignal(state) ==
    LET indicators == StateGet(StateGet(state, "tool_results", <<>>), "indicators", <<>>)
        sma_5 == StateGet(indicators, "sma_5", 0)
        sma_10 == StateGet(indicators, "sma_10", 0)
        crossed == sma_5 # 0 /\ sma_10 # 0 /\ sma_5 # sma_10
        signal == IF ~crossed THEN "hold" ELSE IF sma_5 > sma_10 THEN "buy" ELSE "sell"
        trend == StateGet(indicators, "trend", "none")
        confidence == (IF crossed THEN 70 ELSE 50)
                      + (IF trend = "up" THEN 10 ELSE IF trend = "down" THEN -10 ELSE 0)
        reasoning == (IF ~crossed THEN <<>>
                      ELSE IF sma_5 > sma_10 THEN <<"short average above long average">>
                      ELSE <<"short average below long average">>)
                     \o (IF trend = "up" THEN <<"price trending up">>
                         ELSE IF trend = "down" THEN <<"price trending down">> ELSE <<>>)
        clamped == IF confidence > 100 THEN 100 ELSE IF confidence < 0 THEN 0 ELSE confidence
        decision == [signal |-> signal, confidence |-> clamped,
                     reasoning |-> reasoning, indicators |-> indicators]
    IN NewAgentState(state, [final_decision |-> decision, should_end |-> TRUE])

\* What an agent's run gives a handler of the standard flow: an out whose
\* status is completed, an out whose status is failed, or an AgentError
RunBehaviours == {"completed", "failed", "raise"}

AnalyzerIds == <<"technical", "fundamental", "sentiment">>

\* a Decision.to_dict() of the decision maker
DecisionDict(i) == [decision_id |-> i, decision_type |-> IF i = 1 THEN "buy" ELSE "hold"]

NoneDecision == [decision_id |-> 0, decision_type |-> "None"]

\* agent.run(agent_input) as the handlers see it
StrategyRun(agent_id, behaviour, count) ==
    CASE behaviour = "raise" ->
           [exc |-> AgentError("LLM_ERROR", "LLM invocation failed", "none"),
            result |-> <<>>, decisions |-> <<>>]
      [] behaviour = "failed" ->
           [exc |-> NoExc, result |-> <<>>, decisions |-> <<>>]
      [] OTHER ->
           [exc |-> NoExc, result |-> [by |-> agent_id],
            decisions |-> [i \in 1..count |-> DecisionDict(i)]]

\* setup_standard_flow: collect_data
CollectData(agents, state) ==
    LET out == StrategyRun("data_collector", agents.data_collector, 0)
        new_outputs == Put(StateGet(state, "agent_outputs", <<>>),
                           "data_collector", out.result)
    IN IF out.exc # NoExc THEN [exc |-> out.exc, state |-> state]
       ELSE NewAgentState(state, [agent_outputs |-> new_outputs])

\* setup_standard_flow: analyze; gather re-raises an analyzer's exception
Analyze(agents, state) ==
    LET n == Len(agents.analyzers)
        outs == [i \in 1..n |-> StrategyRun(AnalyzerIds[i], agents.analyzers[i], 0)]
        gathered == [id \in {AnalyzerIds[i] : i \in 1..n} |->
                      outs[CHOOSE i \in 1..n : AnalyzerIds[i] = id].result]
        new_outputs == Put(StateGet(state, "agent_outputs", <<>>), "analysis", gathered)
    IN IF \E i \in 1..n : outs[i].exc # NoExc
       THEN [exc |-> outs[CHOOSE i \in 1..n : outs[i].exc # NoExc].exc, state |-> state]
       ELSE NewAgentState(state, [agent_outputs |-> new_outputs])

\* setup_standard_flow: assess_risk
AssessRisk(agents, state) ==
    LET out == StrategyRun("risk_assessor", agents.risk_assessor, 0)
        new_outputs == Put(StateGet(state, "agent_outputs", <<>>),
                           "risk_assessment", out.result)
    IN IF out.exc # NoExc THEN [exc |-> out.exc, state |-> state]
       ELSE NewAgentState(state, [agent_outputs |-> new_outputs])

\* setup_standard_flow: make_decision
MakeDecisionNode(agents, state) ==
    LET out == StrategyRun("decision_maker", agents.decision_maker, agents.decisions)
        new_outputs == Put(StateGet(state, "agent_outputs", <<>>),
                           "decision", out.result)
        decision_dicts == out.decisions
    IN IF out.exc # NoExc THEN [exc |-> out.exc, state |-> state]
       ELSE NewAgentState(state,
                          [agent_outputs |-> new_outputs,
                           decisions |-> decision_dicts,
                           final_decision |-> IF decision_dicts # <<>> THEN decision_dicts[1]
                                              ELSE NoneDecision,
                           should_end |-> TRUE])

\* the nodes, entry point, edges and finish point each setup adds
StrategyGraph(workflow) ==
    IF workflow = "technical"
    THEN [nodes |-> {"fetch_data", "calculate_indicators", "generate_signal"},
          entry |-> "fetch_data",
          edges |-> {<<"fetch_data", "calculate_indicators">>,
                     <<"calculate_indicators", "generate_signal">>,
                     <<"generate_signal", "END">>}]
    ELSE [nodes |-> {"collect_data", "analyze", "assess_risk", "make_decision"},
          entry |-> "collect_data",
          edges |-> {<<"collect_data", "analyze">>,
                     <<"analyze", "assess_risk">>,
                     <<"assess_risk", "make_decision">>,
                     <<"make_decision", "END">>}]

\* the handler registered for a node
StrategyHandler(node, symbol, agents, state) ==
    CASE node = "fetch_data" -> FetchData(symbol, state)
      [] node = "calculate_indicators" -> CalculateIndicators(state)
      [] node = "generate_signal" -> GenerateSignal(state)
      [] node = "collect_data" -> CollectData(agents, state)
      [] node = "analyze" -> Analyze(agents, state)
      [] node = "assess_risk" -> AssessRisk(agents, state)
      [] OTHER -> MakeDecisionNode(agents, state)

NoAgents == [data_collector |-> "none", analyzers |-> <<>>, risk_assessor |-> "none",
             decision_maker |-> "none", decisions |-> 0]

\* the agents a standard flow is set up with
StrategyAgents ==
    [data_collector : RunBehaviours,
     analyzers : SeqsUpTo(RunBehaviours, MaxAnalyzers),
     risk_assessor : RunBehaviours,
     decision_maker : RunBehaviours,
     decisions : 0..MaxDecisions]

\* the keys a caller's initial AgentState may hold, with the values
\* _prepare_initial_state gives them
InitialValue(key) ==
    CASE key = "task_id" -> "task_1"
      [] key = "task_input" -> [symbol |-> "600519"]
      [] key = "should_end" -> FALSE
      [] key = "final_decision" -> NoneDecision
      [] OTHER -> <<>>

StrategyInitialStates ==
    {[k \in ks |-> InitialValue(k)] :
        ks \in SUBSET {"task_id", "task_input", "agent_outputs", "tool_results",
                       "final_decision", "should_end"}}

\* a workflow set up and compiled, and the initial state run is given
StrategyStart ==
    /\ sw_workflow \in {"technical", "standard"}
    /\ sw_symbol \in (IF sw_workflow = "technical" THEN Symbols ELSE {"none"})
    /\ sw_agents \in (IF sw_workflow = "standard" THEN StrategyAgents ELSE {NoAgents})
    /\ sw_initial \in StrategyInitialStates
    /\ sw_state = sw_initial
    /\ sw_pc = "ready"
    /\ sw_node = "none"
    /\ sw_trace = <<>>
    /\ sw_exc = NoExc

StrategyIdle ==
    /\ sw_workflow = "none"
    /\ sw_symbol = "none"
    /\ sw_agents = NoAgents
    /\ sw_initial = <<>>
    /\ sw_state = <<>>
    /\ sw_pc = "idle"
    /\ sw_node = "none"
    /\ sw_trace = <<>>
    /\ sw_exc = NoExc

\* run: the compiled graph starts at the entry point
Sw_Enter ==
    /\ sw_pc = "ready"
    /\ sw_pc' = "running"
    /\ sw_node' = StrategyGraph(sw_workflow).entry
    /\ UNCHANGED <<sw_workflow, sw_symbol, sw_agents, sw_initial, sw_state, sw_trace, sw_exc>>
    /\ UNCHANGED not_svars

\* one node: its handler runs on the current state; an exception ends the run,
\* otherwise the state it returns is the state of the node its edge leads to
Sw_RunNode ==
    /\ sw_pc = "running"
    /\ LET r == StrategyHandler(sw_node, sw_symbol, sw_agents, sw_state)
           next == (CHOOSE e \in StrategyGraph(sw_workflow).edges : e[1] = sw_node)[2]
       IN /\ sw_trace' = Append(sw_trace, sw_node)
          /\ sw_exc' = r.exc
          /\ sw_state' = r.state
          /\ IF r.exc # NoExc
             THEN sw_pc' = "aborted" /\ sw_node' = sw_node
             ELSE IF next = "END"
             THEN sw_pc' = "done" /\ sw_node' = sw_node
             ELSE sw_pc' = "running" /\ sw_node' = next
    /\ UNCHANGED <<sw_workflow, sw_symbol, sw_agents, sw_initial>>
    /\ UNCHANGED not_svars

StrategyNext == Sw_Enter \/ Sw_RunNode

----------------------------------------------------------------------------
\* ResearchWorkflow (workflows/strategy_workflow.py)

\* ResearchWorkflow.setup: research_step
ResearchStep(researcher, state) ==
    LET iteration == StateGet(state, "iteration_count", 0)
        out == StrategyRun("researcher", researcher, 0)
        new_outputs == Put(StateGet(state, "agent_outputs", <<>>),
                           <<"research_iteration", iteration>>, out.result)
    IN IF out.exc # NoExc THEN [exc |-> out.exc, state |-> state]
       ELSE NewAgentState(state, [agent_outputs |-> new_outputs,
                                  iteration_count |-> iteration + 1])

\* ResearchWorkflow.setup: should_continue
ShouldContinue(max_iterations, state) ==
    IF StateGet(state, "iteration_count", 0) >= max_iterations THEN "finish"
    ELSE IF StateGet(state, "should_end", FALSE) THEN "finish"
    ELSE "continue"

\* ResearchWorkflow.setup: summarize
Summarize(state) ==
    LET summary == [total_iterations |-> StateGet(state, "iteration_count", 0),
                    findings |-> StateGet(state, "agent_outputs", <<>>)]
    IN NewAgentState(state, [final_decision |-> summary, should_end |-> TRUE])

\* the initial states run may be given; iteration_count is absent or 0
ResearchInitialStates ==
    {[k \in ks |-> CASE k = "iteration_count" -> 0
                     [] k = "should_end" -> e
                     [] OTHER -> InitialValue(k)] :
        ks \in SUBSET {"task_id", "agent_outputs", "iteration_count", "should_end",
                       "final_decision"},
        e \in BOOLEAN}

\* ResearchWorkflow(max_iterations).setup(researcher), compiled, and the
\* initial state run is given
ResearchStart ==
    /\ rw_max_iterations \in 0..MaxResearch
    /\ rw_researcher \in RunBehaviours
    /\ rw_initial \in ResearchInitialStates
    /\ rw_state = rw_initial
    /\ rw_pc = "ready"
    /\ rw_node = "none"
    /\ rw_trace = <<>>
    /\ rw_exc = NoExc

ResearchIdle ==
    /\ rw_max_iterations = 0
    /\ rw_researcher = "none"
    /\ rw_initial = <<>>
    /\ rw_state = <<>>
    /\ rw_pc = "idle"
    /\ rw_node = "none"
    /\ rw_trace = <<>>
    /\ rw_exc = NoExc

\* run: the compiled graph starts at the entry point
Rw_Enter ==
    /\ rw_pc = "ready"
    /\ rw_pc' = "running"
    /\ rw_node' = "research"
    /\ UNCHANGED <<rw_max_iterations, rw_researcher, rw_initial, rw_state, rw_trace, rw_exc>>
    /\ UNCHANGED not_hvars

\* the research node and its conditional edge
Rw_Research ==
    /\ rw_pc = "running"
    /\ rw_node = "research"
    /\ LET r == ResearchStep(rw_researcher, rw_state)
       IN /\ rw_trace' = Append(rw_trace, "research")
          /\ rw_exc' = r.exc
          /\ rw_state' = r.state
          /\ IF r.exc # NoExc
             THEN rw_pc' = "aborted" /\ rw_node' = rw_node
             ELSE /\ rw_pc' = "running"
                  /\ rw_node' = IF ShouldContinue(rw_max_iterations, r.state) = "continue"
                                THEN "research" ELSE "summarize"
    /\ UNCHANGED <<rw_max_iterations, rw_researcher, rw_initial>>
    /\ UNCHANGED not_hvars

\* the summarize node, which is the finish point
Rw_Summarize ==
    /\ rw_pc = "running"
    /\ rw_node = "summarize"
    /\ LET r == Summarize(rw_state)
       IN /\ rw_trace' = Append(rw_trace, "summarize")
          /\ rw_exc' = r.exc
          /\ rw_state' = r.state
          /\ rw_pc' = IF r.exc # NoExc THEN "aborted" ELSE "done"
    /\ UNCHANGED <<rw_max_iterations, rw_researcher, rw_initial, rw_node>>
    /\ UNCHANGED not_hvars

ResearchNext == Rw_Enter \/ Rw_Research \/ Rw_Summarize

----------------------------------------------------------------------------
\* AgentFactory instance cache (core/factory.py)

CacheAgentIds == {"agent_1", "agent_2"}

NoInstance == [agent |-> NoAgent, agent_id |-> "none", serial |-> 0]

NoCacheCall == [op |-> "none", agent_type |-> "none", agent_id |-> "none",
                returned |-> NoInstance, exc |-> NoExc, before |-> <<>>]

\* AgentFactory.get_or_create: what it returns or raises, the new cache, and
\* whether an agent was constructed; `serial` tells constructed objects apart
GetOrCreate(registry, factory, instances, call, serial) ==
    IF call.agent_id \in DOMAIN instances
    THEN [returned |-> instances[call.agent_id], exc |-> NoExc, instances |-> instances,
          constructed |-> FALSE]
    ELSE LET made == Create(registry, factory, call)
             agent == [agent |-> made.agent, agent_id |-> call.agent_id, serial |-> serial]
         IN IF made.exc # NoExc
            THEN [returned |-> NoInstance, exc |-> made.exc, instances |-> instances,
                  constructed |-> FALSE]
            ELSE [returned |-> agent, exc |-> NoExc,
                  instances |-> Put(instances, call.agent_id, agent),
                  constructed |-> TRUE]

\* AgentFactory.clear_cache
ClearCache(instances) == <<>>

\* a factory just constructed, over some registry
CacheStart ==
    /\ cache_registry \in Registries
    /\ cache_factory \in [llm_factory : FactoryKinds, tool_factory : {"none"}]
    /\ cache_instances = <<>>
    /\ cache_built = [id \in CacheAgentIds |-> 0]
    /\ cache_ops = 0
    /\ cache_last = NoCacheCall

CacheIdle ==
    /\ cache_registry = [t \in AgentTypes |-> "absent"]
    /\ cache_factory = [llm_factory |-> "none", tool_factory |-> "none"]
    /\ cache_instances = <<>>
    /\ cache_built = [id \in CacheAgentIds |-> 0]
    /\ cache_ops = -1
    /\ cache_last = NoCacheCall

\* one call of get_or_create
Ca_GetOrCreate ==
    /\ cache_ops \in 0..(MaxCacheOps - 1)
    /\ \E t \in AgentTypes, id \in CacheAgentIds, model \in {"none", "given"} :
         LET call == [agent_type |-> t, agent_id |-> id, llm |-> model, tools |-> "given",
                      allowed_tools |-> FALSE]
             r == GetOrCreate(cache_registry, cache_factory, cache_instances, call,
                              cache_ops + 1)
         IN /\ cache_instances' = r.instances
            /\ cache_built' = IF r.constructed
                              THEN [cache_built EXCEPT ![id] = cache_built[id] + 1]
                              ELSE cache_built
            /\ cache_last' = [op |-> "get_or_create", agent_type |-> t, agent_id |-> id,
                              returned |-> r.returned, exc |-> r.exc,
                              before |-> cache_instances]
    /\ cache_ops' = cache_ops + 1
    /\ UNCHANGED <<cache_registry, cache_factory>>
    /\ UNCHANGED not_cvars

\* one call of clear_cache
Ca_ClearCache ==
    /\ cache_ops \in 0..(MaxCacheOps - 1)
    /\ cache_instances' = ClearCache(cache_instances)
    /\ cache_built' = [id \in CacheAgentIds |-> 0]
    /\ cache_last' = [NoCacheCall EXCEPT !.op = "clear", !.before = cache_instances]
    /\ cache_ops' = cache_ops + 1
    /\ UNCHANGED <<cache_registry, cache_factory>>
    /\ UNCHANGED not_cvars

CacheNext == Ca_GetOrCreate \/ Ca_ClearCache

----------------------------------------------------------------------------
\* Specifications: each starts one part of the system and leaves the others idle
AgentInit ==
    /\ AgentStart
    /\ WorkflowIdle
    /\ DecisionIdle
    /\ PlanIdle
    /\ FactoryIdle
    /\ RunsIdle
    /\ ObjIdle
    /\ RegistryIdle
    /\ StrategyIdle
    /\ ResearchIdle
    /\ CacheIdle

AgentSpec == AgentInit /\ [][AgentNext]_vars

WorkflowInit ==
    /\ WorkflowStart
    /\ AgentIdle
    /\ DecisionIdle
    /\ PlanIdle
    /\ FactoryIdle
    /\ RunsIdle
    /\ ObjIdle
    /\ RegistryIdle
    /\ StrategyIdle
    /\ ResearchIdle
    /\ CacheIdle

WorkflowSpec == WorkflowInit /\ [][WorkflowNext]_vars

DecisionInit ==
    /\ DecisionStart
    /\ AgentIdle
    /\ WorkflowIdle
    /\ PlanIdle
    /\ FactoryIdle
    /\ RunsIdle
    /\ ObjIdle
    /\ RegistryIdle
    /\ StrategyIdle
    /\ ResearchIdle
    /\ CacheIdle

DecisionSpec == DecisionInit /\ [][DecisionNext]_vars

PlanInit ==
    /\ PlanStart
    /\ AgentIdle
    /\ WorkflowIdle
    /\ DecisionIdle
    /\ FactoryIdle
    /\ RunsIdle
    /\ ObjIdle
    /\ RegistryIdle
    /\ StrategyIdle
    /\ ResearchIdle
    /\ CacheIdle

PlanSpec == PlanInit /\ [][PlanNext]_vars

FactoryInit ==
    /\ FactoryStart
    /\ AgentIdle
    /\ WorkflowIdle
    /\ DecisionIdle
    /\ PlanIdle
    /\ RunsIdle
    /\ ObjIdle
    /\ RegistryIdle
    /\ StrategyIdle
    /\ ResearchIdle
    /\ CacheIdle

FactorySpec == FactoryInit /\ [][FactoryNext]_vars

RunsInit ==
    /\ RunsStart
    /\ AgentIdle
    /\ WorkflowIdle
    /\ DecisionIdle
    /\ PlanIdle
    /\ FactoryIdle
    /\ ObjIdle
    /\ RegistryIdle
    /\ StrategyIdle
    /\ ResearchIdle
    /\ CacheIdle

RunsSpec == RunsInit /\ [][RunsNext]_vars

ObjInit ==
    /\ ObjStart
    /\ AgentIdle
    /\ WorkflowIdle
    /\ DecisionIdle
    /\ PlanIdle
    /\ FactoryIdle
    /\ RunsIdle
    /\ RegistryIdle
    /\ StrategyIdle
    /\ ResearchIdle
    /\ CacheIdle

ObjSpec == ObjInit /\ [][ObjNext]_vars

RegistryInit ==
    /\ RegistryStart
    /\ AgentIdle
    /\ WorkflowIdle
    /\ DecisionIdle
    /\ PlanIdle
    /\ FactoryIdle
    /\ RunsIdle
    /\ ObjIdle
    /\ StrategyIdle
    /\ ResearchIdle
    /\ CacheIdle

RegistrySpec == RegistryInit /\ [][RegistryNext]_vars

StrategyInit ==
    /\ StrategyStart
    /\ AgentIdle
    /\ WorkflowIdle
    /\ DecisionIdle
    /\ PlanIdle
    /\ FactoryIdle
    /\ RunsIdle
    /\ ObjIdle
    /\ RegistryIdle
    /\ ResearchIdle
    /\ CacheIdle

StrategySpec == StrategyInit /\ [][StrategyNext]_vars

ResearchInit ==
    /\ ResearchStart
    /\ AgentIdle
    /\ WorkflowIdle
    /\ DecisionIdle
    /\ PlanIdle
    /\ FactoryIdle
    /\ RunsIdle
    /\ ObjIdle
    /\ RegistryIdle
    /\ StrategyIdle
    /\ CacheIdle

ResearchSpec == ResearchInit /\ [][ResearchNext]_vars

CacheInit ==
    /\ CacheStart
    /\ AgentIdle
    /\ WorkflowIdle
    /\ DecisionIdle
    /\ PlanIdle
    /\ FactoryIdle
    /\ RunsIdle
    /\ ObjIdle
    /\ RegistryIdle
    /\ StrategyIdle
    /\ ResearchIdle

CacheSpec == CacheInit /\ [][CacheNext]_vars

----------------------------------------------------------------------------
\* Properties of BaseAgent.run and ReActAgent

IsReAct == agent_class \in {"ReActAgent", "StrategyAnalyzerAgent"}

\* C1: run always returns an AgentOutput whose status is Completed or Failed
\* and never raises to its caller.
C1_RunAlwaysReturnsOutput ==
    pc = "done" => (raised = NoExc /\ output.status \in {"completed", "failed"})

\* C2: the iteration_count of every result a ReAct run returns is at most the
\* configured max_iterations.
C2_IterationCountBounded ==
    /\ IsReAct /\ pc # "run" => current_state.iteration_count <= config.max_iterations
    /\ (pc = "done" /\ output.status = "completed" /\ output.result.kind = "react")
          => output.result.iteration_count <= config.max_iterations

\* a run that used its whole budget: a tool round, then the final answer
C2_Witness ==
    /\ pc = "done"
    /\ output.status = "completed"
    /\ output.result.kind = "react"
    /\ config.max_iterations >= 2
    /\ output.result.iteration_count = config.max_iterations
    /\ output.result.tool_results # <<>>

\* the run ended at the loop guard: every round (there was at least one) asked
\* for tools until the iteration count reached max_iterations
GuardTripped ==
    /\ pc = "done"
    /\ IsReAct
    /\ agent_input.task_id # ""
    /\ ~current_state.should_end
    /\ config.max_iterations >= 1
    /\ current_state.iteration_count >= config.max_iterations

\* C3: when the loop guard trips, no further model invocation happens and run
\* converts MaxIterationsExceeded into a Failed output.
C3_GuardTripBecomesFailed ==
    GuardTripped =>
        /\ llm_log = <<>>
        /\ raised = NoExc
        /\ output.status = "failed"
        /\ output.error = "Max iterations exceeded"

AllFailed(log) == \A i \in 1..Len(log) : ~log[i].ok

\* C7: an invoke_llm call makes at most max_retries attempts, stops at the
\* first success and returns its response, and after max_retries failures
\* raises LLM_ERROR wrapping the last underlying error.
C7_BoundedRetry ==
    /\ Len(llm_log) <= config.max_retries
    /\ AllFailed(SubSeq(llm_log, 1, Len(llm_log) - 1))
    /\ pc = "llm" => AllFailed(llm_log) /\ Len(llm_log) = attempt
    /\ pc = "dispatch" =>
          /\ llm_log # <<>>
          /\ llm_log[Len(llm_log)].ok
          /\ response = llm_log[Len(llm_log)].resp
    /\ raised.code = "LLM_ERROR" =>
          /\ Len(llm_log) = config.max_retries
          /\ AllFailed(llm_log)
          /\ llm_log # <<>> => raised.cause = llm_log[Len(llm_log)].err

\* every attempt failed, with different errors: the last one is wrapped
C7_Witness ==
    /\ raised.code = "LLM_ERROR"
    /\ Len(llm_log) >= 2
    /\ llm_log[1].err # llm_log[Len(llm_log)].err
    /\ raised.cause = llm_log[Len(llm_log)].err

\* the call fails: the tool is unknown to the agent, or its ainvoke raises
CallFails(name) ==
    \/ \A t \in tools : t.name # name
    \/ \E t \in tools : t.name = name /\ t.behaviour = "raise"

RoundOver == pc \in {"loop", "llm"} /\ response.tool_calls # <<>>

\* C8: in a tool round every requested call is executed in request order
\* whatever failed before it; the results list has one entry per call in the
\* same order, a failed call's entry is an inline error string, and the round
\* never raises.
C8_ToolRoundCompletes ==
    /\ pc = "tools" =>
          /\ tool_idx <= Len(response.tool_calls) + 1
          /\ Len(results) = tool_idx - 1
    /\ RoundOver => Len(results) = Len(response.tool_calls)
    /\ (pc = "tools" \/ RoundOver) =>
          /\ Len(executed) = Len(results)
          /\ \A i \in 1..Len(results) :
                /\ executed[i] = response.tool_calls[i].name
                /\ results[i].tool = response.tool_calls[i].name
                /\ results[i].err <=> CallFails(response.tool_calls[i].name)
    /\ raised.code # "TOOL_EXECUTION_FAILED"
    /\ output.error \notin {"Tool not found", "Tool execution failed"}

\* a round whose first call failed and whose second call still ran and succeeded
C8_Witness ==
    /\ RoundOver
    /\ Len(results) = 2
    /\ results[1].err
    /\ ~results[2].err

\* C9: every Failed AgentOutput carries a non-empty error string and an empty
\* result map and decisions list.
C9_FailedCarriesError ==
    output.status = "failed" =>
        /\ output.error \notin {"", "None"}
        /\ output.result = EmptyResult
        /\ output.decisions = <<>>

\* extract_result was called on the final response
ExtractionRan ==
    /\ agent_class = "StrategyAnalyzerAgent"
    /\ pc \in {"loop", "done"}
    /\ response.kind = "ai"
    /\ response.tool_calls = <<>>

Parseable(content) == JsonLoads(Strip(SelectJson(content))).ok

\* C10: when the text selected from the final response is not parseable JSON,
\* extract_result returns {raw_response: text} and no decision and raises
\* nothing, and the run ends Completed with an empty decisions list.
C10_UnparseableFallsBack ==
    (ExtractionRan /\ ~Parseable(response.content)) =>
        /\ extracted = [kind |-> "raw", raw_response |-> response.content,
                        value |-> NoJson]
        /\ decisions = <<>>
        /\ raised = NoExc
        /\ current_state.should_end
        /\ pc = "done" =>
              /\ output.status = "completed"
              /\ output.decisions = <<>>

\* a fenced block that holds prose: the run completes on the fallback
C10_Witness ==
    /\ ExtractionRan
    /\ pc = "done"
    /\ response.content = <<"FJ", "txt", "F">>
    /\ output.status = "completed"
    /\ extracted.kind = "raw"

----------------------------------------------------------------------------
\* Workflow properties

TasksWith(kinds) == {tasks[i] : i \in {j \in 1..Len(tasks) : task_results[j].kind \in kinds}}

\* the fan-out node has just finished over sub-agents that all have handlers,
\* at least one of which raised
FanOutDone ==
    /\ wf_template = "parallel"
    /\ Range(wf_list) \subseteq agent_handlers
    /\ wf_trace # <<>>
    /\ wf_trace[Len(wf_trace)].kind = "fanout"
    /\ TasksWith({"exception"}) # {}

\* C4: when the fan-out node finishes, whatever subset of its sub-agents
\* raised, the run has not aborted, the merged state has an error entry for
\* exactly the sub-agents that raised, and an output of this fan-out for exactly
\* the sub-agents that succeeded, each under its own identifier.
C4_FanOutIsolatesFailures ==
    FanOutDone =>
        /\ wf_pc # "aborted"
        /\ DOMAIN wf_state.agent_errors = TasksWith({"exception"})
        /\ {id \in DOMAIN wf_state.agent_outputs : wf_state.agent_outputs[id].form # "prior"}
             = TasksWith({"state", "plain"})
        /\ \A id \in TasksWith({"state", "plain"}) : wf_state.agent_outputs[id].by = id

TraceNodes == [i \in 1..Len(wf_trace) |-> wf_trace[i].node]

\* C5: a sequential workflow over distinct registered agents runs its nodes in
\* the configured order, each once, ends right after the last one, and the
\* returned agent_outputs has every agent's key when every handler recorded
\* its output under its own id.
C5_SequentialOrder ==
    wf_template = "sequential" =>
        /\ Len(wf_trace) <= Len(wf_list)
        /\ TraceNodes = SubSeq(wf_list, 1, Len(wf_trace))
        /\ wf_pc = "ended" => TraceNodes = wf_list
        /\ (Len(wf_trace) = Len(wf_list) /\ wf_pc # "aborted") => wf_pc = "ended"
        /\ (wf_pc = "ended" /\ \A i \in 1..Len(wf_trace) : wf_trace[i].kind = "state")
             => Range(wf_list) \subseteq DOMAIN wf_state.agent_outputs

C5_Witness ==
    /\ wf_template = "sequential"
    /\ wf_pc = "ended"
    /\ Len(wf_list) = 3
    /\ \A i \in 1..Len(wf_trace) : wf_trace[i].kind = "state"
    /\ DOMAIN wf_state.agent_outputs = Range(wf_list)

Visits(nodes) == Cardinality({i \in 1..Len(wf_trace) : wf_trace[i].node \in nodes})

\* C6: in a supervisor workflow whose routing gives k worker labels and then
\* FINISH, a run never takes more than 2k+1 node steps, every worker step is
\* followed at once by the supervisor, and a run that ends has run the
\* supervisor k+1 times and workers k times, with as many decisions in the
\* final state as worker steps that produced one.
C6_SupervisorLoopBounded ==
    wf_template = "supervisor" =>
        LET k == Len(route_script)
        IN /\ Len(wf_trace) <= 2 * k + 1
           /\ \A i \in 1..Len(wf_trace) :
                wf_trace[i].node # "supervisor" =>
                    IF i < Len(wf_trace) THEN wf_trace[i + 1].node = "supervisor"
                    ELSE wf_pc = "aborted" \/ (wf_pc = "at_node" /\ wf_node = "supervisor")
           /\ wf_pc = "ended" =>
                /\ Visits({"supervisor"}) = k + 1
                /\ Visits(Range(wf_list)) = k
                /\ Len(wf_trace) = 2 * k + 1
                /\ Len(wf_state.decisions)
                     = Cardinality({i \in 1..Len(wf_trace) : wf_trace[i].decided})

C6_Witness ==
    /\ wf_template = "supervisor"
    /\ wf_pc = "ended"
    /\ Len(route_script) = 2
    /\ Visits(Range(wf_list)) = 2
    /\ Len(wf_state.decisions) = 1

----------------------------------------------------------------------------
\* Properties of decision extraction

\* extract_result has run on a payload that json.loads accepted
ParsedExtractionRan == dec_pc \in {"extracted", "done"} /\ dec_value.json # "none"

\* C11: whenever json.loads accepted the final response, extract_result
\* returns exactly one Decision whose kind, confidence, reasoning, risk factors
\* and recommended action are the payload's when present (kind over buy, sell,
\* hold, observe, alert) and the defaults (hold, 0.5, empty) when missing or
\* unknown, and whose symbol is the task input's.
C11_ParsedPayloadBecomesDecision ==
    ParsedExtractionRan =>
        /\ dec_out.exc = NoExc
        /\ Len(dec_out.decisions) = 1
        /\ LET d == dec_out.decisions[1]
               has(f) == f \in dec_value.present
           IN /\ d.decision_type =
                   IF has("decision") /\ dec_value.decision \in DecisionTypes
                   THEN dec_value.decision ELSE "hold"
              /\ d.confidence = IF has("confidence") THEN dec_value.confidence ELSE 50
              /\ d.reasoning = IF has("reasoning") THEN dec_value.reasoning ELSE <<>>
              /\ d.risk_factors = IF has("risk_factors") THEN dec_value.risk_factors ELSE <<>>
              /\ d.recommended_action =
                   IF has("recommended_action") THEN dec_value.recommended_action ELSE ""
              /\ dec_state.task_input.has_symbol => d.symbol = dec_state.task_input.symbol

\* C12: confidence_level is very_low below 0.25, low from 0.25, medium from
\* 0.5, high from 0.75 and very_high from 0.9, each lower bound included.
C12_TierBoundaries ==
    dec_pc = "done" /\ dec_level # "none" =>
        LET c == dec_decision.confidence
        IN /\ dec_level = "very_low" <=> c < 25
           /\ dec_level = "low" <=> (25 <= c /\ c < 50)
           /\ dec_level = "medium" <=> (50 <= c /\ c < 75)
           /\ dec_level = "high" <=> (75 <= c /\ c < 90)
           /\ dec_level = "very_high" <=> c >= 90

C12_Witness ==
    /\ dec_pc = "done"
    /\ dec_value = NoJson
    /\ dec_decision.confidence = 75
    /\ dec_level = "high"

----------------------------------------------------------------------------
\* Properties of PlanAndExecuteAgent

\* the plan response holds an object with a list of steps under "plan"
PlanParses(content) ==
    /\ PlanJsonLoads(PlanSelectJson(content)).ok
    /\ PlanJsonLoads(PlanSelectJson(content)).value \in PlanListTokens

\* create_plan got a response from the model
PlanningAnswered == "planning" \in Range(plan_phases) /\ plan_raised # LLMError

\* C13: whenever the plan response does not parse into the step-list schema,
\* create_plan raises nothing and returns the single-step plan that executes
\* the task as given, so the run goes on to executing and summarizing.
C13_PlanParseFailureDegrades ==
    (Len(plan_phases) = 1 /\ PlanningAnswered /\ ~PlanParses(plan_response)) =>
        /\ plan = FallbackPlan
        /\ plan_pc = "executing"
        /\ plan_raised = NoExc
        /\ plan_output = NoOutput

----------------------------------------------------------------------------
\* Properties of AgentFactory.create

\* a construction-time failure: no LLM and no LLM factory, a failing LLM or
\* tool factory, or a constructor that raises
ConstructionFails ==
    \/ fac_call.llm = "none" /\ fac_factory.llm_factory \in {"none", "raises"}
    \/ fac_call.tools = "none" /\ fac_call.allowed_tools /\ fac_factory.tool_factory = "raises"
    \/ fac_registry[fac_call.agent_type] = "raises"

\* C14: create returns a new agent of the requested type, or raises AgentError:
\* AGENT_NOT_FOUND when the type is not registered, AGENT_INITIALIZATION_FAILED
\* for every construction-time failure; nothing else escapes and no failure
\* goes unreported.
C14_CreateReturnsOrRaisesAgentError ==
    fac_pc = "done" =>
        IF fac_registry[fac_call.agent_type] = "absent"
        THEN /\ fac_raised.type = "AgentError"
             /\ fac_raised.code = "AGENT_NOT_FOUND"
             /\ fac_agent = NoAgent
        ELSE IF ConstructionFails
        THEN /\ fac_raised.type = "AgentError"
             /\ fac_raised.code = "AGENT_INITIALIZATION_FAILED"
             /\ fac_agent = NoAgent
        ELSE /\ fac_raised = NoExc
             /\ fac_agent.kind = "agent"
             /\ fac_agent.agent_type = fac_call.agent_type

----------------------------------------------------------------------------
\* Properties of concurrent runs

RunOver(r) == runs[r].pc \in {"ended", "aborted"}

----------------------------------------------------------------------------
\* Properties of state objects

----------------------------------------------------------------------------
\* Properties of the ToolRegistry

\* C18: after any sequence of register, unregister and clear, get(name) is the
\* tool of the latest registration under that name (None when there is none),
\* and get_by_category(c) is exactly the registered tools whose latest
\* registration carries category c.
C18_RegistryFollowsLatestRegistration ==
    reg_ops >= 0 =>
        /\ \A name \in RegistryNames :
             Get(tool_registry, name) =
               IF name \in DOMAIN reg_latest THEN reg_latest[name].tool ELSE 0
        /\ \A c \in ToolCategories :
             GetByCategory(tool_registry, c) =
               {reg_latest[n].tool : n \in {m \in DOMAIN reg_latest : reg_latest[m].category = c}}

----------------------------------------------------------------------------
\* Strategy workflow properties

\* run has returned or raised
StrategyRunOver(workflow) == sw_workflow = workflow /\ sw_pc \in {"done", "aborted"}

\* C19: a technical-analysis run calls fetch_data, calculate_indicators and
\* generate_signal once each in that order and returns a state whose should_end
\* is true and whose final_decision has signal buy, sell or hold and a
\* confidence in [0,1]
C19_TechnicalFlowCompletes ==
    StrategyRunOver("technical") =>
        /\ sw_pc = "done"
        /\ sw_trace = <<"fetch_data", "calculate_indicators", "generate_signal">>
        /\ "should_end" \in DOMAIN sw_state /\ sw_state["should_end"] = TRUE
        /\ "final_decision" \in DOMAIN sw_state
        /\ sw_state["final_decision"].signal \in {"buy", "sell", "hold"}
        /\ sw_state["final_decision"].confidence \in 0..100

\* C20: a standard-flow run calls collect_data, analyze, assess_risk and
\* make_decision once each in that order; the final state holds agent_outputs
\* entries data_collector, analysis, risk_assessment and decision, should_end
\* is true and final_decision is the decision maker's first decision, or none
\* when it produced no decision
C20_StandardFlowCompletes ==
    (/\ StrategyRunOver("standard")
     /\ sw_agents.data_collector # "raise"
     /\ sw_agents.risk_assessor # "raise"
     /\ sw_agents.decision_maker # "raise"
     /\ \A i \in 1..Len(sw_agents.analyzers) : sw_agents.analyzers[i] # "raise") =>
        /\ sw_pc = "done"
        /\ sw_trace = <<"collect_data", "analyze", "assess_risk", "make_decision">>
        /\ "agent_outputs" \in DOMAIN sw_state
        /\ {"data_collector", "analysis", "risk_assessment", "decision"}
              \subseteq DOMAIN sw_state["agent_outputs"]
        /\ "should_end" \in DOMAIN sw_state /\ sw_state["should_end"] = TRUE
        /\ "final_decision" \in DOMAIN sw_state
        /\ LET made == StrategyRun("decision_maker", sw_agents.decision_maker,
                                   sw_agents.decisions).decisions
           IN sw_state["final_decision"] = IF made # <<>> THEN made[1] ELSE NoneDecision

----------------------------------------------------------------------------
\* ReAct loop properties

\* the model responses in a message history
AiCount(messages) == Cardinality({i \in 1..Len(messages) : messages[i].role = "ai"})

\* the run returned a ReAct result
ReActReturned ==
    pc = "done" /\ output.status = "completed" /\ output.result.kind = "react"

C21_Shape ==
    IsReAct =>
       /\ extract_calls <= 1
       /\ pc = "extract" => (response.tool_calls = <<>> /\ extract_calls = 0)
       /\ current_state.should_end =>
             (extract_calls = 1 /\ response.tool_calls = <<>> /\ pc \in {"loop", "done"})
       /\ ReActReturned =>
             /\ extract_calls = 1
             /\ current_state.should_end
             /\ output.result.iteration_count = AiCount(current_state.messages)

C21_Step ==
    IsReAct =>
       /\ (pc = "dispatch" /\ response.tool_calls = <<>>) => pc' = "extract"
       /\ current_state'.should_end # current_state.should_end =>
             (pc = "extract" /\ extract_calls' = extract_calls + 1)
       /\ current_state.should_end =>
             (llm_calls' = llm_calls /\ executed' = executed
              /\ extract_calls' = extract_calls)

\* C21: a ReAct run extracts exactly once, on the first response without tool
\* calls; should_end is set only at that step; no model or tool invocation
\* follows it; and the returned iteration_count is the number of model
\* responses processed
C21_ReActRunShape == []C21_Shape /\ [][C21_Step]_vars

\* a returned run with one tool round before the final answer
C21_Witness ==
    /\ ReActReturned
    /\ extract_calls = 1
    /\ output.result.iteration_count = 2
    /\ AiCount(current_state.messages) = 2
    /\ output.result.tool_results # <<>>

\* q starts with p
IsPrefix(p, q) == Len(p) <= Len(q) /\ SubSeq(q, 1, Len(p)) = p

\* a step of the loop body that ends a tool round
ToolRoundEnds == pc = "tools" /\ pc' = "loop"

\* C22: within a ReAct run the message history only grows at its end; a tool
\* round extends it by the assistant response and then one tool-result turn
\* per requested call, in request order
C22_HistoryAppendOnly ==
    [][(IsReAct /\ pc # "run") =>
          LET old == current_state.messages
              new == current_state'.messages
              calls == response.tool_calls
          IN /\ IsPrefix(old, new)
             /\ ToolRoundEnds =>
                   /\ Len(new) = Len(old) + 1 + Len(calls)
                   /\ new[Len(old) + 1].role = "ai"
                   /\ new[Len(old) + 1].content = response.content
                   /\ \A i \in 1..Len(calls) :
                         /\ new[Len(old) + 1 + i].role = "tool"
                         /\ new[Len(old) + 1 + i].tool_call_id = calls[i].id
                         /\ new[Len(old) + 1 + i].result = results[i]
                         /\ results[i].tool = calls[i].name]_vars

\* the second model invocation of a run, after a round of two tool calls
C22_Witness ==
    /\ IsReAct
    /\ pc = "llm"
    /\ current_state.iteration_count = 1
    /\ Len(response.tool_calls) = 2
    /\ Len(current_state.messages) >= 4
    /\ current_state.messages[Len(current_state.messages)].role = "tool"

\* the positions of the tool-result turns of one tool in a history
ToolTurns(messages, name) ==
    {i \in 1..Len(messages) : messages[i].role = "tool" /\ messages[i].result.tool = name}

\* the greatest element of a non-empty set of numbers
Latest(S) == CHOOSE i \in S : \A j \in S : j <= i

\* C23: tool_results maps each tool name to the result of the most recent call
\* of that tool, across rounds and within one round
C23_ToolResultsAreLatest ==
    (IsReAct /\ pc # "run") =>
        LET messages == current_state.messages
            tool_results == current_state.tool_results
        IN /\ DOMAIN tool_results = {n \in ToolNames : ToolTurns(messages, n) # {}}
           /\ \A n \in DOMAIN tool_results :
                 tool_results[n] = messages[Latest(ToolTurns(messages, n))].result

\* one tool called twice in a first round and again in a second round
C23_Witness ==
    /\ IsReAct
    /\ pc = "loop"
    /\ current_state.iteration_count = 2
    /\ Cardinality(ToolTurns(current_state.messages, "get_quote")) >= 3
    /\ "get_quote" \in DOMAIN current_state.tool_results
    /\ current_state.tool_results["get_quote"] =
          current_state.messages[Len(current_state.messages)].result

----------------------------------------------------------------------------
\* Fan-out merge properties

\* parallel_executor has just returned a merged state
FanOutMerged ==
    /\ wf_template = "parallel"
    /\ tasks # <<>>
    /\ wf_trace # <<>>
    /\ wf_trace[Len(wf_trace)].kind = "fanout"
    /\ wf_pc # "aborted"

\* C24: whatever ids of parallel_agents have a handler, every error the fan-out
\* records is keyed by the id of an agent whose handler raised, and every
\* output by the id of the agent whose handler produced it
C24_FanOutKeysByProducer ==
    FanOutMerged =>
        /\ DOMAIN wf_state.agent_errors \subseteq TasksWith({"exception"})
        /\ \A id \in DOMAIN wf_state.agent_outputs :
              wf_state.agent_outputs[id].form # "prior" => wf_state.agent_outputs[id].by = id

\* parallel_executor has just returned or raised after gathering its tasks
FanOutOver ==
    /\ wf_template = "parallel"
    /\ tasks # <<>>
    /\ wf_trace # <<>>
    /\ wf_trace[Len(wf_trace)].kind = "fanout"

\* every entry of map d for an id outside `ids` is in map e with the same value
KeepsOutside(d, e, ids) ==
    \A id \in (DOMAIN d) \ ids : id \in DOMAIN e /\ e[id] = d[id]

\* C25: the fan-out merge returns a state that keeps the incoming agent_outputs
\* and agent_errors entries of agents outside the fan-out, keeps the
\* agent_outputs entry of an agent it records an error for, and passes every
\* other key through unchanged
C25_FanOutMergeOnlyAdds ==
    FanOutOver =>
        /\ wf_pc # "aborted"
        /\ KeepsOutside(wf_in.agent_outputs, wf_state.agent_outputs, Range(wf_list))
        /\ KeepsOutside(wf_in.agent_errors, wf_state.agent_errors, Range(wf_list))
        /\ \A id \in (DOMAIN wf_state.agent_errors) \cap (DOMAIN wf_in.agent_outputs) :
              id \in DOMAIN wf_state.agent_outputs
        /\ wf_in.keys \subseteq wf_state.keys
        /\ wf_state.decisions = wf_in.decisions
        /\ wf_state.iteration_count = wf_in.iteration_count

----------------------------------------------------------------------------
\* Extracted confidence

\* C26: every Decision that result extraction produces has a confidence within
\* [0, 1], whatever the model's payload
C26_ExtractedConfidenceInRange ==
    (dec_pc \in {"extracted", "done"} /\ dec_value.json # "none") =>
        \A i \in 1..Len(dec_out.decisions) : dec_out.decisions[i].confidence \in 0..100

----------------------------------------------------------------------------
\* Plan execution order

\* the step numbers of the first k steps of the plan
StepNumbers(k) == [i \in 1..k |-> plan.steps[i].step]

\* the steps the model was invoked for, in invocation order
InvokedSteps ==
    [i \in 1..(Len(plan_invocations) - 1) |-> plan_invocations[i + 1].step]

\* C27: the steps are executed one after the other in plan order, each with one
\* model invocation after the single planning invocation; the returned results
\* have one entry per step in plan order and steps_completed is the number of
\* plan steps
C27_StepsRunInPlanOrder ==
    (plan_pc \in {"executing", "summarizing", "done"} /\ plan.kind = "list") =>
        /\ plan_invocations # <<>>
        /\ plan_invocations[1].purpose = "plan"
        /\ \A i \in 2..Len(plan_invocations) : plan_invocations[i].purpose = "step"
        /\ Len(plan_results) <= Len(plan.steps)
        /\ \A i \in 1..Len(plan_results) : plan_results[i].step = plan.steps[i]
        /\ Len(InvokedSteps) \in {Len(plan_results), Len(plan_results) + 1}
        /\ Len(InvokedSteps) <= Len(plan.steps)
        /\ InvokedSteps = StepNumbers(Len(InvokedSteps))
        /\ plan_output.status = "completed" =>
              /\ InvokedSteps = StepNumbers(Len(plan.steps))
              /\ Len(plan_output.result.results) = Len(plan.steps)
              /\ \A i \in 1..Len(plan.steps) :
                    plan_output.result.results[i].step = plan.steps[i]
              /\ plan_output.result.steps_completed = Len(plan.steps)

\* a completed run over a plan of two steps
C27_Witness ==
    /\ plan_pc = "done"
    /\ plan_output.status = "completed"
    /\ Len(plan.steps) = 2
    /\ plan_output.result.steps_completed = 2
    /\ Len(plan_invocations) = 3

----------------------------------------------------------------------------
\* Research workflow properties

\* the number of research steps in the trace
ResearchSteps == Cardinality({i \in 1..Len(rw_trace) : rw_trace[i] = "research"})

\* C28: a run started with iteration_count 0 executes the research node at
\* most max_iterations times, then executes summarize once and ends, and its
\* final_decision gives the number of research steps as total_iterations
C28_ResearchLoopBounded ==
    rw_pc \in {"done", "aborted"} =>
        /\ rw_pc = "done"
        /\ ResearchSteps <= rw_max_iterations
        /\ rw_trace = [i \in 1..(ResearchSteps + 1) |->
                          IF i <= ResearchSteps THEN "research" ELSE "summarize"]
        /\ rw_state["final_decision"].total_iterations = ResearchSteps

----------------------------------------------------------------------------
\* Analyzer fan-out of the standard flow

\* the analyze node has run with an analyzer whose run failed and one whose
\* run succeeded
AnalyzeRanWithFailure ==
    /\ sw_workflow = "standard"
    /\ Len(sw_trace) >= 2
    /\ sw_trace[2] = "analyze"
    /\ \E i \in 1..Len(sw_agents.analyzers) : sw_agents.analyzers[i] = "raise"
    /\ \E i \in 1..Len(sw_agents.analyzers) : sw_agents.analyzers[i] = "completed"

\* C29: when one analyzer fails the analyze node still completes, and
\* agent_outputs['analysis'] holds the result of every analyzer that succeeded
C29_AnalyzerFailureIsolated ==
    AnalyzeRanWithFailure =>
        /\ ~(sw_pc = "aborted" /\ Len(sw_trace) = 2)
        /\ "agent_outputs" \in DOMAIN sw_state
        /\ "analysis" \in DOMAIN sw_state["agent_outputs"]
        /\ \A i \in 1..Len(sw_agents.analyzers) :
              sw_agents.analyzers[i] = "completed" =>
                 /\ AnalyzerIds[i] \in DOMAIN sw_state["agent_outputs"]["analysis"]
                 /\ sw_state["agent_outputs"]["analysis"][AnalyzerIds[i]] =
                       StrategyRun(AnalyzerIds[i], "completed", 0).result

----------------------------------------------------------------------------
\* Factory cache properties

\* C30: get_or_create returns an agent of the requested type with the config's
\* agent_id; at most one agent is constructed per agent_id between cache
\* clears, later calls returning the same instance; a call that fails leaves
\* the cache unchanged
C30_CacheReturnsRequestedAgent ==
    cache_last.op = "get_or_create" =>
        /\ cache_last.exc = NoExc =>
              /\ cache_last.returned.agent.agent_type = cache_last.agent_type
              /\ cache_last.returned.agent_id = cache_last.agent_id
              /\ cache_last.agent_id \in DOMAIN cache_last.before =>
                    cache_last.returned = cache_last.before[cache_last.agent_id]
        /\ cache_last.exc # NoExc => cache_instances = cache_last.before
        /\ \A id \in CacheAgentIds : cache_built[id] <= 1

====
